---- MODULE Spec2Model ----
(***************************************************************************)
(* Model of the edit/undo engine of the terminal text editor:              *)
(*   core/edit_history.rs   Edit, EditOperation, EditHistory               *)
(*   tui/view/graphemes.rs  grapheme utilities                             *)
(*   tui/view/keyboard.rs   type_character, insert_newline, delete_char,   *)
(*                          backspace                                      *)
(*   tui/view/selection.rs  perform_movement                               *)
(*   tui/caret.rs           Caret                                          *)
(*   core/buffer.rs         Buffer                                         *)
(*   tui/mod.rs             TerminalEditor::main_loop                      *)
(*                                                                         *)
(* A String is a sequence of chars (Unicode scalar values), each char a    *)
(* one-character TLA+ string.  Indices in the source are 0-based, TLA+     *)
(* sequences are 1-based; every operator below takes and returns the       *)
(* source's 0-based indices.                                               *)
(***************************************************************************)
EXTENDS Integers, Sequences, FiniteSets, TLC

VARIABLES
    lines,          \* view.buffer.lines : Vec<String>
    position,       \* caret.position : Position {x, y}
    scroll_offset,  \* view.scroll_offset
    undo_stack,     \* edit_history.undo_stack, where the tabs are not modelled
    redo_stack,     \* edit_history.redo_stack, where the tabs are not modelled
    elapsed,        \* now.duration_since(edit_history.last_edit_time).as_millis()
    panicked,       \* the process has panicked (index out of range, bad char boundary)
    edit,           \* the Edit under test (apply/reverse specification)
    stage,          \* history variable: the phase of the run ("start", "applied",
                    \* "reversed"; in the editor "editing", "undoing", "redoing", "other");
                    \* with prompts and tabs the loop that reads the next key ("main_loop",
                    \* "quit", "save_as", "search", "exited")
    lines0,         \* history variable: the buffer at construction
    step,           \* history variable: what the last step did
    edits,          \* history variable: the number of calls that change state so far
    log,            \* history variable: the first steps taken since construction
    snaps,          \* history variable: buffer snapshots of the entries on the stacks;
                    \* with tabs the live state every tab was last left with
    selection,      \* view.selection : Option<Selection>
    clipboard,      \* the system clipboard
    prompt,         \* view.prompt : Option<Prompt>, with the query typed so far
    tabs,           \* tab_manager.tabs : Vec<Tab>
    active_tab_index, \* tab_manager.active_tab_index
    quit_program,   \* TerminalEditor.quit_program
    search_state    \* view.search_state : Option<SearchState>

vars == <<lines, position, scroll_offset, undo_stack, redo_stack, elapsed,
          panicked, edit, stage, lines0, step, edits, log, snaps, selection, clipboard,
          prompt, tabs, active_tab_index, quit_program, search_state>>

----------------------------------------------------------------------------
(* Characters and strings *)

\* 'e' with acute accent, U+00E9: one char, two bytes in UTF-8, a grapheme of its own
EAcute == "E"
\* combining acute accent, U+0301: one char, two bytes, extends the preceding grapheme
Combining == "M"
\* line feed
NL == "\n"

\* char::len_utf8
len_utf8(ch) == IF ch \in {EAcute, Combining} THEN 2 ELSE 1

\* chars[..n]
Take(s, n) == SubSeq(s, 1, n)
\* chars[n..]
Drop(s, n) == SubSeq(s, n + 1, Len(s))

RECURSIVE byte_len(_)
\* String::len : the length in bytes
byte_len(s) == IF s = <<>> THEN 0 ELSE len_utf8(Head(s)) + byte_len(Tail(s))

\* str::is_char_boundary
is_char_boundary(s, b) == \E k \in 0..Len(s) : byte_len(Take(s, k)) = b
\* the number of chars before byte offset b (b a char boundary)
char_idx(s, b) == CHOOSE k \in 0..Len(s) : byte_len(Take(s, k)) = b

RECURSIVE split_nl(_)
\* str::split('\n') : the pieces between line feeds; one empty piece for ""
split_nl(s) ==
    IF \A i \in 1..Len(s) : s[i] # NL THEN <<s>>
    ELSE LET i == CHOOSE j \in 1..Len(s) : s[j] = NL /\ \A k \in 1..(j - 1) : s[k] # NL
         IN <<Take(s, i - 1)>> \o split_nl(Drop(s, i))

\* Vec::insert(idx, x) for idx <= len
vec_insert(v, idx, x) == Take(v, idx) \o <<x>> \o Drop(v, idx)
\* Vec::remove(idx) for idx < len
vec_remove(v, idx) == Take(v, idx) \o Drop(v, idx + 1)
\* v[idx] = x
vec_set(v, idx, x) == [v EXCEPT ![idx + 1] = x]

\* the outcome of an operation on the buffer: the new lines, or a panic
Done(b) == [panic |-> FALSE, lines |-> b]
Panic == [panic |-> TRUE, lines |-> <<>>]

----------------------------------------------------------------------------
(* Edit (core/edit_history.rs) *)

InsertText(line, column, text) ==
    [kind |-> "InsertText", line |-> line, column |-> column, text |-> text]
DeleteText(line, column, text) ==
    [kind |-> "DeleteText", line |-> line, column |-> column, text |-> text]
InsertLine(line, remaining_text) ==
    [kind |-> "InsertLine", line |-> line, remaining_text |-> remaining_text]
DeleteLine(line, content, prev_line_end_len) ==
    [kind |-> "DeleteLine", line |-> line, content |-> content,
     prev_line_end_len |-> prev_line_end_len]
JoinLines(line, first_line_end) ==
    [kind |-> "JoinLines", line |-> line, first_line_end |-> first_line_end]
ReplaceRange(start_line, start_column, end_line, end_column, old_text, new_text) ==
    [kind |-> "ReplaceRange", start_line |-> start_line, start_column |-> start_column,
     end_line |-> end_line, end_column |-> end_column,
     old_text |-> old_text, new_text |-> new_text]

\* chars[..from] ++ text ++ chars[to..] on line `line`; a slice out of range panics
splice(buffer, line, from, to, text) ==
    IF line >= Len(buffer) THEN Done(buffer)
    ELSE LET chars == buffer[line + 1]
         IN IF from > Len(chars) \/ to > Len(chars) THEN Panic
            ELSE Done(vec_set(buffer, line, Take(chars, from) \o text \o Drop(chars, to)))

RECURSIVE remove_n(_, _, _)
\* for _ in 0..n { if at < buffer.len() { buffer.remove(at) } }
remove_n(buffer, at, n) ==
    IF n = 0 THEN buffer
    ELSE remove_n(IF at < Len(buffer) THEN vec_remove(buffer, at) ELSE buffer, at, n - 1)

RECURSIVE insert_all(_, _, _)
\* for (i, line) in new_lines.enumerate() { buffer.insert(at + i, line) }
insert_all(buffer, at, new_lines) ==
    IF new_lines = <<>> THEN Done(buffer)
    ELSE IF at > Len(buffer) THEN Panic
    ELSE insert_all(vec_insert(buffer, at, Head(new_lines)), at + 1, Tail(new_lines))

\* Edit::apply
apply(e, buffer) ==
    CASE e.kind = "InsertText" ->
            splice(buffer, e.line, e.column, e.column, e.text)
      [] e.kind = "DeleteText" ->
            splice(buffer, e.line, e.column, e.column + byte_len(e.text), <<>>)
      [] e.kind = "InsertLine" ->
            IF e.line < Len(buffer)
            THEN Done(vec_insert(buffer, e.line + 1, e.remaining_text))
            ELSE Done(Append(buffer, e.remaining_text))
      [] e.kind = "DeleteLine" ->
            IF e.line < Len(buffer) THEN Done(vec_remove(buffer, e.line)) ELSE Done(buffer)
      [] e.kind = "JoinLines" ->
            IF e.line + 1 < Len(buffer)
            THEN LET next_line == buffer[e.line + 2]
                     removed == vec_remove(buffer, e.line + 1)
                 IN Done(vec_set(removed, e.line, removed[e.line + 1] \o next_line))
            ELSE Done(buffer)
      [] e.kind = "ReplaceRange" ->
            IF e.start_line = e.end_line
            THEN splice(buffer, e.start_line, e.start_column, e.end_column, e.new_text)
            ELSE LET n == IF e.end_line >= e.start_line
                          THEN e.end_line - e.start_line + 1 ELSE 0
                 IN insert_all(remove_n(buffer, e.start_line, n), e.start_line,
                               split_nl(e.new_text))

\* String::split_off(at) on line `line`, the tail given to `rest`
split_line(buffer, line, at, rest(_, _)) ==
    LET s == buffer[line + 1]
    IN IF at > byte_len(s) \/ ~is_char_boundary(s, at) THEN Panic
       ELSE LET k == char_idx(s, at)
            IN Done(rest(vec_set(buffer, line, Take(s, k)), Drop(s, k)))

\* Edit::reverse
reverse(e, buffer) ==
    CASE e.kind = "InsertText" ->
            splice(buffer, e.line, e.column, e.column + byte_len(e.text), <<>>)
      [] e.kind = "DeleteText" ->
            splice(buffer, e.line, e.column, e.column, e.text)
      [] e.kind = "InsertLine" ->
            IF e.line + 1 < Len(buffer)
            THEN LET removed == vec_remove(buffer, e.line + 1)
                 IN Done(vec_set(removed, e.line, removed[e.line + 1] \o e.remaining_text))
            ELSE Done(buffer)
      [] e.kind = "DeleteLine" ->
            IF e.line > 0 /\ e.line <= Len(buffer)
            THEN LET rest(b, split_content) ==
                         vec_insert(b, e.line, e.content \o split_content)
                 IN split_line(buffer, e.line - 1, e.prev_line_end_len, rest)
            ELSE Done(buffer)
      [] e.kind = "JoinLines" ->
            IF e.line < Len(buffer)
            THEN LET rest(b, split_content) == vec_insert(b, e.line + 1, split_content)
                 IN split_line(buffer, e.line, e.first_line_end, rest)
            ELSE Done(buffer)
      [] e.kind = "ReplaceRange" ->
            IF e.start_line = e.end_line
            THEN splice(buffer, e.start_line, e.start_column, e.end_column, e.old_text)
            ELSE Done(buffer)

----------------------------------------------------------------------------
(* Grapheme utilities (tui/view/graphemes.rs) *)

\* a grapheme cluster starts at char i (1-based): the start of the string, a char that
\* is not an extending mark, or a char after a control character (UAX #29 GB1, GB4, GB9)
starts_grapheme(s, i) == i = 1 \/ s[i] # Combining \/ s[i - 1] = NL

\* grapheme_len
grapheme_len(s) == Cardinality({i \in 1..Len(s) : starts_grapheme(s, i)})

\* the number of chars before the grapheme with index grapheme_idx, all of them when
\* there is no such grapheme
grapheme_to_char_idx(s, grapheme_idx) ==
    LET at == {i \in 1..Len(s) :
                  /\ starts_grapheme(s, i)
                  /\ Cardinality({j \in 1..(i - 1) : starts_grapheme(s, j)}) = grapheme_idx}
    IN IF at = {} THEN Len(s) ELSE (CHOOSE i \in at : TRUE) - 1

\* grapheme_to_byte_idx with the index counting chars, not graphemes
grapheme_to_byte_idx_by_char(s, grapheme_idx) ==
    byte_len(Take(s, IF grapheme_idx < Len(s) THEN grapheme_idx ELSE Len(s)))

\* grapheme_to_byte_idx
grapheme_to_byte_idx(s, grapheme_idx) == byte_len(Take(s, grapheme_to_char_idx(s, grapheme_idx)))

\* a.saturating_sub(b)
saturating_sub(a, b) == IF a > b THEN a - b ELSE 0

Min(a, b) == IF a < b THEN a ELSE b

\* grapheme_slice : skip(start).take(end.saturating_sub(start))
grapheme_slice(s, start, end) ==
    LET from == grapheme_to_char_idx(s, start)
        to == grapheme_to_char_idx(s, start + saturating_sub(end, start))
    IN SubSeq(s, from + 1, to)

\* insert_at_grapheme : s.insert_str(byte_idx, text)
insert_at_grapheme(s, grapheme_idx, text) ==
    LET k == char_idx(s, grapheme_to_byte_idx(s, grapheme_idx))
    IN Take(s, k) \o text \o Drop(s, k)

\* remove_grapheme_at : the string left and the grapheme removed (None when out of range)
remove_grapheme_at(s, grapheme_idx) ==
    LET byte_start == grapheme_to_byte_idx(s, grapheme_idx)
        byte_end == grapheme_to_byte_idx(s, grapheme_idx + 1)
    IN IF byte_start < byte_len(s)
       THEN [s |-> Take(s, char_idx(s, byte_start)) \o Drop(s, char_idx(s, byte_end)),
             removed |-> SubSeq(s, char_idx(s, byte_start) + 1, char_idx(s, byte_end)),
             some |-> TRUE]
       ELSE [s |-> s, removed |-> <<>>, some |-> FALSE]

\* split_at_grapheme : s.split_at(byte_idx)
split_at_grapheme(s, grapheme_idx) ==
    LET k == char_idx(s, grapheme_to_byte_idx(s, grapheme_idx))
    IN [before |-> Take(s, k), after |-> Drop(s, k)]

----------------------------------------------------------------------------
(* Selection text (tui/view/clipboard.rs) *)

\* a TextPosition
TextPosition(line, column) == [line |-> line, column |-> column]

RECURSIVE extract_lines(_, _, _, _)
\* the loop of extract_text over line_idx in from..=end.line, multi-line selection
extract_lines(buffer, start, end, line_idx) ==
    IF line_idx > end.line THEN <<>>
    ELSE (IF line_idx >= Len(buffer) THEN <<>>
          ELSE LET line == buffer[line_idx + 1]
                   grapheme_count == grapheme_len(line)
               IN IF line_idx = start.line
                  THEN grapheme_slice(line, Min(start.column, grapheme_count), grapheme_count)
                           \o <<NL>>
                  ELSE IF line_idx = end.line
                  THEN grapheme_slice(line, 0, Min(end.column, grapheme_count))
                  ELSE line \o <<NL>>)
         \o extract_lines(buffer, start, end, line_idx + 1)

\* extract_text
extract_text(buffer, start, end) ==
    IF start.line = end.line
    THEN IF start.line < Len(buffer)
         THEN LET line == buffer[start.line + 1]
                  grapheme_count == grapheme_len(line)
              IN grapheme_slice(line, Min(start.column, grapheme_count),
                                Min(end.column, grapheme_count))
         ELSE <<>>
    ELSE extract_lines(buffer, start, end, start.line)

----------------------------------------------------------------------------
(* EditOperation and EditHistory (core/edit_history.rs) *)

\* an EditOperation
EditOperation(e, cursor_before, cursor_after, scroll_before, scroll_after) ==
    [edit |-> e, cursor_before |-> cursor_before, cursor_after |-> cursor_after,
     scroll_before |-> scroll_before, scroll_after |-> scroll_after]

\* EditHistory::new : grouping_threshold_ms
grouping_threshold_ms == 500
\* EditHistory::new(max_history); Tab::new passes 500, scaled down here
max_history == 2

\* an EditHistory: the two stacks (last_edit_time is carried by the variable elapsed)
EditHistory(undo, redo) == [undo_stack |-> undo, redo_stack |-> redo]

\* can_group_with_last without the test of the elapsed time
can_group_with_last_untimed(undo, operation, elapsed_ms) ==
    IF undo = <<>> THEN FALSE
    ELSE LET last_op == undo[Len(undo)]
         IN CASE last_op.edit.kind = "InsertText" /\ operation.edit.kind = "InsertText" ->
                    last_op.edit.line = operation.edit.line
              [] last_op.edit.kind = "DeleteText" /\ operation.edit.kind = "DeleteText" ->
                    last_op.edit.line = operation.edit.line
              [] OTHER -> FALSE

\* EditHistory::can_group_with_last, elapsed_ms being now - last_edit_time
can_group_with_last(undo, operation, elapsed_ms) ==
    IF undo = <<>> THEN FALSE
    ELSE IF elapsed_ms > grouping_threshold_ms THEN FALSE
    ELSE LET last_op == undo[Len(undo)]
         IN CASE last_op.edit.kind = "InsertText" /\ operation.edit.kind = "InsertText" ->
                    last_op.edit.line = operation.edit.line
              [] last_op.edit.kind = "DeleteText" /\ operation.edit.kind = "DeleteText" ->
                    last_op.edit.line = operation.edit.line
              [] OTHER -> FALSE

\* try_merge_operations that puts the newly deleted text after the old
try_merge_operations_appending(last, new) ==
    CASE /\ last.edit.kind = "InsertText" /\ new.edit.kind = "InsertText"
         /\ last.edit.line = new.edit.line
         /\ last.edit.column + byte_len(last.edit.text) = new.edit.column ->
            [merged |-> TRUE,
             op |-> [last EXCEPT !.edit.text = last.edit.text \o new.edit.text,
                                 !.cursor_after = new.cursor_after,
                                 !.scroll_after = new.scroll_after]]
      [] /\ last.edit.kind = "DeleteText" /\ new.edit.kind = "DeleteText"
         /\ last.edit.line = new.edit.line
         /\ new.edit.column = saturating_sub(last.edit.column, byte_len(new.edit.text)) ->
            [merged |-> TRUE,
             op |-> [last EXCEPT !.edit.text = last.edit.text \o new.edit.text,
                                 !.edit.column = new.edit.column,
                                 !.cursor_after = new.cursor_after,
                                 !.scroll_after = new.scroll_after]]
      [] OTHER -> [merged |-> FALSE, op |-> last]

\* EditHistory::try_merge_operations : whether the two merged, and `last` afterwards
try_merge_operations(last, new) ==
    CASE /\ last.edit.kind = "InsertText" /\ new.edit.kind = "InsertText"
         /\ last.edit.line = new.edit.line
         /\ last.edit.column + byte_len(last.edit.text) = new.edit.column ->
            [merged |-> TRUE,
             op |-> [last EXCEPT !.edit.text = last.edit.text \o new.edit.text,
                                 !.cursor_after = new.cursor_after,
                                 !.scroll_after = new.scroll_after]]
      [] /\ last.edit.kind = "DeleteText" /\ new.edit.kind = "DeleteText"
         /\ last.edit.line = new.edit.line
         /\ new.edit.column = saturating_sub(last.edit.column, byte_len(new.edit.text)) ->
            [merged |-> TRUE,
             op |-> [last EXCEPT !.edit.text = new.edit.text \o last.edit.text,
                                 !.edit.column = new.edit.column,
                                 !.cursor_after = new.cursor_after,
                                 !.scroll_after = new.scroll_after]]
      [] OTHER -> [merged |-> FALSE, op |-> last]

\* push_merges that does not ask can_group_with_last
push_merges_unguarded(h, operation, elapsed_ms) ==
    /\ h.undo_stack # <<>>
    /\ try_merge_operations(h.undo_stack[Len(h.undo_stack)], operation).merged

\* whether EditHistory::push merges the operation into the top entry
push_merges(h, operation, elapsed_ms) ==
    /\ can_group_with_last(h.undo_stack, operation, elapsed_ms)
    /\ try_merge_operations(h.undo_stack[Len(h.undo_stack)], operation).merged

\* push that leaves the redo stack as it is
push_keeps_redo(h, operation, elapsed_ms) ==
    IF push_merges(h, operation, elapsed_ms)
    THEN LET n == Len(h.undo_stack)
         IN EditHistory(Take(h.undo_stack, n - 1)
                            \o <<try_merge_operations(h.undo_stack[n], operation).op>>,
                        h.redo_stack)
    ELSE LET pushed == Append(h.undo_stack, operation)
         IN EditHistory(IF Len(pushed) > max_history THEN vec_remove(pushed, 0) ELSE pushed,
                        h.redo_stack)

\* push that evicts the entry below the new one instead of the oldest
push_evicts_newest(h, operation, elapsed_ms) ==
    IF push_merges(h, operation, elapsed_ms)
    THEN LET n == Len(h.undo_stack)
         IN EditHistory(Take(h.undo_stack, n - 1)
                            \o <<try_merge_operations(h.undo_stack[n], operation).op>>,
                        <<>>)
    ELSE LET pushed == Append(h.undo_stack, operation)
         IN EditHistory(IF Len(pushed) > max_history
                        THEN vec_remove(pushed, Len(pushed) - 2) ELSE pushed,
                        <<>>)

\* EditHistory::push, elapsed_ms being now - last_edit_time; last_edit_time becomes now
push(h, operation, elapsed_ms) ==
    IF push_merges(h, operation, elapsed_ms)
    THEN LET n == Len(h.undo_stack)
         IN EditHistory(Take(h.undo_stack, n - 1)
                            \o <<try_merge_operations(h.undo_stack[n], operation).op>>,
                        <<>>)
    ELSE LET pushed == Append(h.undo_stack, operation)
         IN EditHistory(IF Len(pushed) > max_history THEN vec_remove(pushed, 0) ELSE pushed,
                        <<>>)

\* undo that returns the oldest entry
undo_oldest(h) ==
    IF h.undo_stack # <<>>
    THEN [h |-> EditHistory(Tail(h.undo_stack), Append(h.redo_stack, h.undo_stack[1])),
          some |-> TRUE, operation |-> h.undo_stack[1]]
    ELSE [h |-> h, some |-> FALSE, operation |-> <<>>]

\* undo that drops the undone entries when there is nothing to undo
undo_forgetting_redo(h) ==
    IF h.undo_stack # <<>>
    THEN LET n == Len(h.undo_stack)
         IN [h |-> EditHistory(Take(h.undo_stack, n - 1), Append(h.redo_stack, h.undo_stack[n])),
             some |-> TRUE, operation |-> h.undo_stack[n]]
    ELSE [h |-> EditHistory(<<>>, <<>>), some |-> FALSE, operation |-> <<>>]

\* EditHistory::undo : the history afterwards and the operation returned
undo(h) ==
    IF h.undo_stack # <<>>
    THEN LET n == Len(h.undo_stack)
         IN [h |-> EditHistory(Take(h.undo_stack, n - 1), Append(h.redo_stack, h.undo_stack[n])),
             some |-> TRUE, operation |-> h.undo_stack[n]]
    ELSE [h |-> h, some |-> FALSE, operation |-> <<>>]

\* redo that leaves the redone entry on the redo stack
redo_copying(h) ==
    IF h.redo_stack # <<>>
    THEN LET n == Len(h.redo_stack)
         IN [h |-> EditHistory(Append(h.undo_stack, h.redo_stack[n]), h.redo_stack),
             some |-> TRUE, operation |-> h.redo_stack[n]]
    ELSE [h |-> h, some |-> FALSE, operation |-> <<>>]

\* EditHistory::redo : the history afterwards and the operation returned
redo(h) ==
    IF h.redo_stack # <<>>
    THEN LET n == Len(h.redo_stack)
         IN [h |-> EditHistory(Append(h.undo_stack, h.redo_stack[n]), Take(h.redo_stack, n - 1)),
             some |-> TRUE, operation |-> h.redo_stack[n]]
    ELSE [h |-> h, some |-> FALSE, operation |-> <<>>]

----------------------------------------------------------------------------
(* The values the history variables and the unused variables hold at rest *)

NoStep == [kind |-> "none"]
\* Position::MARGIN
MARGIN == 4
\* Position::HEADER
HEADER == 1
\* Position::default
DefaultPosition == [x |-> MARGIN, y |-> HEADER]
NoEdit == [kind |-> "none"]

----------------------------------------------------------------------------
(* The terminal, the caret and the buffer (tui/drawing.rs, tui/caret.rs,     *)
(* core/buffer.rs)                                                           *)

\* the terminal's columns and rows, as crossterm reports them
TermWidth == 8
TermHeight == 4
\* Terminal::get_size
size == [width |-> TermWidth, height |-> TermHeight]

\* the empty lines Buffer::from_string appends; the source appends 500, scaled down here
BufferPad == 1

\* str::lines : the lines of a text, a final line ending not opening another line
str_lines(content) ==
    LET pieces == split_nl(content)
    IN IF pieces[Len(pieces)] = <<>> THEN Take(pieces, Len(pieces) - 1) ELSE pieces

\* Buffer::from_string without the line pushed for empty content and without the
\* empty lines appended
from_string_bare(content) == str_lines(content)

\* Buffer::from_string
from_string(content) ==
    (IF str_lines(content) = <<>> THEN <<<<>>>> ELSE str_lines(content))
        \o [i \in 1..BufferPad |-> <<>>]

\* Buffer::default : the empty lines alone
default == [i \in 1..BufferPad |-> <<>>]

\* UnicodeWidthStr::width of one char
char_width(ch) == IF ch = Combining THEN 0 ELSE 1

RECURSIVE visual_width(_)
\* graphemes::visual_width
visual_width(s) == IF s = <<>> THEN 0 ELSE char_width(Head(s)) + visual_width(Tail(s))

\* Caret::next_line
next_line(pos) ==
    IF pos.y < size.height - 2 THEN [x |-> 4, y |-> pos.y + 1] ELSE pos

\* Caret::move_left : the caret afterwards and the offset returned
Caret_move_left(pos, offset) ==
    IF pos.x > MARGIN
    THEN [position |-> [pos EXCEPT !.x = pos.x - 1], offset |-> offset]
    ELSE IF pos.y > HEADER
    THEN [position |-> [x |-> size.width - 1, y |-> pos.y - 1], offset |-> offset]
    ELSE IF offset > 0
    THEN [position |-> [pos EXCEPT !.x = size.width - 1], offset |-> offset - 1]
    ELSE [position |-> pos, offset |-> offset]

\* Caret::move_right : the caret afterwards and the offset returned
Caret_move_right(pos, offset, max_lines) ==
    IF pos.x < size.width - 1
    THEN [position |-> [pos EXCEPT !.x = pos.x + 1], offset |-> offset]
    ELSE IF pos.y < size.height - 2
    THEN [position |-> [x |-> 4, y |-> pos.y + 1], offset |-> offset]
    ELSE IF offset < saturating_sub(max_lines, size.height - 1)
    THEN [position |-> [pos EXCEPT !.x = 4], offset |-> offset + 1]
    ELSE [position |-> pos, offset |-> offset]

\* a View with its Caret: the buffer, the caret's position and the scroll offset
View(buffer, pos, offset) == [lines |-> buffer, position |-> pos, scroll_offset |-> offset]

\* a key handler that returns None whatever it did to the view
Returned_none(v, op) == [v |-> v, op |-> <<>>, panic |-> FALSE]

\* what a key handler returns: the view afterwards, the Option<EditOperation> as a
\* sequence of at most one operation, and whether the handler panicked or never returned
Returned(v, op) == [v |-> v, op |-> op, panic |-> FALSE]
Aborted(v) == [v |-> v, op |-> <<>>, panic |-> TRUE]

\* the buffer line under the caret
line_idx(v) == saturating_sub(v.position.y, HEADER) + v.scroll_offset
\* the column under the caret
column_idx(v) == saturating_sub(v.position.x, MARGIN)

\* while view.buffer.lines.len() <= buffer_line_idx { push(String::new()) }
pad_lines(buffer, buffer_line_idx) ==
    IF Len(buffer) <= buffer_line_idx
    THEN buffer \o [i \in 1..(buffer_line_idx + 1 - Len(buffer)) |-> <<>>]
    ELSE buffer

----------------------------------------------------------------------------
(* The key handlers (tui/view/keyboard.rs) and the caret movement to the    *)
(* end of the line (tui/view/selection.rs), with no selection active        *)

\* keyboard::insert_newline
insert_newline(v) ==
    LET pos == v.position
        buffer_line_idx == line_idx(v)
        char_pos == column_idx(v)
        padded == pad_lines(v.lines, buffer_line_idx)
        current_line == padded[buffer_line_idx + 1]
        grapheme_pos == Min(char_pos, grapheme_len(current_line))
        halves == split_at_grapheme(current_line, grapheme_pos)
        buffer == vec_insert(vec_set(padded, buffer_line_idx, halves.before),
                             buffer_line_idx + 1, halves.after)
        offset == IF pos.y < size.height - 2 THEN v.scroll_offset ELSE v.scroll_offset + 1
    IN IF pos.y >= size.height - 1 THEN Returned(v, <<>>)
       ELSE Returned(View(buffer, next_line(pos), offset),
                     <<EditOperation(InsertLine(buffer_line_idx, halves.after),
                                     pos, next_line(pos), v.scroll_offset, offset)>>)

\* keyboard::type_character below the wrap at the right edge
type_in_line(v, character) ==
    LET pos == v.position
        buffer_line_idx == line_idx(v)
        padded == pad_lines(v.lines, buffer_line_idx)
        line == padded[buffer_line_idx + 1]
        grapheme_pos == Min(column_idx(v), grapheme_len(line))
        buffer == vec_set(padded, buffer_line_idx,
                          insert_at_grapheme(line, grapheme_pos, <<character>>))
        moved == Caret_move_right(pos, v.scroll_offset, Len(buffer))
    IN Returned(View(buffer, moved.position, moved.offset),
                <<EditOperation(InsertText(buffer_line_idx, grapheme_pos, <<character>>),
                                pos, moved.position, v.scroll_offset, moved.offset)>>)

\* keyboard::type_character.  At the right edge it calls insert_newline, drops the
\* operation that returns, and calls itself; when the caret is on the last text row
\* insert_newline leaves the caret where it is, so the calls never end and the
\* process dies of its stack or its memory.
type_character(v, character) ==
    LET pos == v.position
        padded == [v EXCEPT !.lines = pad_lines(v.lines, line_idx(v))]
        wrapped == insert_newline(padded).v
    IN IF pos.y >= size.height - 1 THEN Returned(v, <<>>)
       ELSE IF pos.x >= size.width - 1
       THEN IF wrapped.position.x >= size.width - 1
            THEN Aborted(wrapped)
            ELSE type_in_line(wrapped, character)
       ELSE type_in_line(v, character)

\* keyboard::delete_char
delete_char(v) ==
    LET pos == v.position
        buffer_line_idx == line_idx(v)
        char_pos == column_idx(v)
    IN IF buffer_line_idx >= Len(v.lines) THEN Returned(v, <<>>)
       ELSE LET line == v.lines[buffer_line_idx + 1]
            IN IF char_pos < grapheme_len(line)
               THEN LET r == remove_grapheme_at(line, char_pos)
                    IN Returned([v EXCEPT !.lines = vec_set(v.lines, buffer_line_idx, r.s)],
                                <<EditOperation(DeleteText(buffer_line_idx, char_pos, r.removed),
                                                pos, pos, v.scroll_offset, v.scroll_offset)>>)
               ELSE IF buffer_line_idx + 1 < Len(v.lines)
               THEN LET next_line_text == v.lines[buffer_line_idx + 2]
                        removed == vec_remove(v.lines, buffer_line_idx + 1)
                    IN Returned([v EXCEPT !.lines =
                                     vec_set(removed, buffer_line_idx, line \o next_line_text)],
                                <<EditOperation(JoinLines(buffer_line_idx, grapheme_len(line)),
                                                pos, pos, v.scroll_offset, v.scroll_offset)>>)
               ELSE Returned(v, <<>>)

\* keyboard::backspace
backspace(v) ==
    LET pos == v.position
        buffer_line_idx == line_idx(v)
        char_pos == column_idx(v)
    IN IF char_pos > 0
       THEN IF buffer_line_idx < Len(v.lines)
                  /\ char_pos <= grapheme_len(v.lines[buffer_line_idx + 1])
            THEN LET r == remove_grapheme_at(v.lines[buffer_line_idx + 1], char_pos - 1)
                     moved == Caret_move_left(pos, v.scroll_offset)
                 IN Returned(View(vec_set(v.lines, buffer_line_idx, r.s),
                                  moved.position, moved.offset),
                             <<EditOperation(DeleteText(buffer_line_idx, char_pos - 1, r.removed),
                                             pos, moved.position,
                                             v.scroll_offset, moved.offset)>>)
            ELSE Returned(v, <<>>)
       ELSE IF buffer_line_idx > 0
       THEN IF buffer_line_idx >= Len(v.lines)
            THEN Aborted(v)
            ELSE LET prev_line_len == grapheme_len(v.lines[buffer_line_idx])
                     current_line_content == v.lines[buffer_line_idx + 1]
                     joined == vec_remove(
                                   vec_set(v.lines, buffer_line_idx - 1,
                                           v.lines[buffer_line_idx] \o current_line_content),
                                   buffer_line_idx)
                     after ==
                         IF pos.y > HEADER
                         THEN View(joined, [x |-> MARGIN + prev_line_len, y |-> pos.y - 1],
                                   v.scroll_offset)
                         ELSE IF v.scroll_offset > 0
                         THEN View(joined, [x |-> MARGIN + prev_line_len, y |-> HEADER],
                                   v.scroll_offset - 1)
                         ELSE View(joined, pos, v.scroll_offset)
                 IN Returned(after,
                             <<EditOperation(DeleteLine(buffer_line_idx, current_line_content,
                                                        prev_line_len),
                                             pos, after.position,
                                             v.scroll_offset, after.scroll_offset)>>)
       ELSE Returned(v, <<>>)

\* selection::perform_movement, direction "max_right"
move_max_right(v) ==
    LET pos == v.position
        buffer_line_idx == line_idx(v)
    IN IF buffer_line_idx < Len(v.lines)
       THEN [v EXCEPT !.position =
                [x |-> Min(MARGIN + visual_width(v.lines[buffer_line_idx + 1]),
                           size.width - 1),
                 y |-> pos.y]]
       ELSE [v EXCEPT !.position = [x |-> size.width - 1, y |-> pos.y]]

----------------------------------------------------------------------------
(* Selections (core/selection.rs, tui/view/selection.rs, tui/view/mod.rs)    *)
(* An Option is a sequence of at most one value.                             *)

\* a Selection
Selection(anchor, cursor) == [anchor |-> anchor, cursor |-> cursor]

\* Selection::new
Selection_new(pos) == Selection(pos, pos)

\* Selection::is_active
is_active(s) == s.anchor # s.cursor

\* Selection::get_range without the ordering: (anchor, cursor) as they are
get_range_unordered(s) == [start |-> s.anchor, end |-> s.cursor]

\* Selection::get_range
get_range(s) ==
    IF s.anchor.line < s.cursor.line
           \/ (s.anchor.line = s.cursor.line /\ s.anchor.column < s.cursor.column)
    THEN [start |-> s.anchor, end |-> s.cursor]
    ELSE [start |-> s.cursor, end |-> s.anchor]

\* helpers::text_to_screen_pos
text_to_screen_pos(v, pos) ==
    [x |-> pos.column + MARGIN,
     y |-> IF pos.line >= v.scroll_offset THEN HEADER + (pos.line - v.scroll_offset)
           ELSE HEADER]

\* helpers::get_current_text_pos
get_current_text_pos(v) == TextPosition(line_idx(v), column_idx(v))

\* selection::perform_movement, direction "right"
move_right(v) ==
    LET pos == v.position
        buffer_line_idx == line_idx(v)
    IN IF buffer_line_idx < Len(v.lines)
       THEN LET line_grapheme_len == grapheme_len(v.lines[buffer_line_idx + 1])
                moved == Caret_move_right(pos, v.scroll_offset, Len(v.lines))
            IN IF pos.x < MARGIN + line_grapheme_len /\ pos.x < size.width - 1
               THEN View(v.lines, moved.position, moved.offset)
               ELSE IF column_idx(v) >= line_grapheme_len
                          /\ buffer_line_idx + 1 < Len(v.lines)
               THEN IF pos.y < size.height - 2
                    THEN [v EXCEPT !.position = [x |-> MARGIN, y |-> pos.y + 1]]
                    ELSE View(v.lines, [x |-> MARGIN, y |-> pos.y], v.scroll_offset + 1)
               ELSE v
       ELSE v

\* selection::move_with_selection, perform_movement taking view v to view moved : the
\* view and the selection afterwards
move_with_selection(v, sel, moved) ==
    LET started == IF sel = <<>> THEN <<Selection_new(get_current_text_pos(v))>>
                   ELSE sel
    IN [v |-> moved,
        selection |-> <<[started[1] EXCEPT !.cursor = get_current_text_pos(moved)]>>]

\* the index of the last line that is not empty, 0 when there is none
\* (lines.iter().rposition(|line| !line.is_empty()).unwrap_or(0))
last_non_empty(buffer) ==
    LET at == {i \in 1..Len(buffer) : buffer[i] # <<>>}
    IN IF at = {} THEN 0 ELSE (CHOOSE i \in at : \A j \in at : j <= i) - 1

\* selection::select_all : the view and the selection afterwards
select_all(v) ==
    LET last_line_idx == last_non_empty(v.lines)
        last_line_len == IF last_line_idx < Len(v.lines)
                         THEN grapheme_len(v.lines[last_line_idx + 1]) ELSE 0
        end == TextPosition(last_line_idx, last_line_len)
    IN [v |-> [v EXCEPT !.position = text_to_screen_pos(v, end)],
        selection |-> <<Selection(TextPosition(0, 0), end)>>]

----------------------------------------------------------------------------
(* Clipboard operations (tui/view/clipboard.rs).  The system clipboard is a  *)
(* record: whether arboard can open it, and the text it holds, if any.       *)

\* String::drain(byte_start..byte_end) on a line; a range out of order panics
drain(line, byte_start, byte_end) ==
    IF byte_start > byte_end THEN [panic |-> TRUE, s |-> line]
    ELSE [panic |-> FALSE,
          s |-> Take(line, char_idx(line, byte_start)) \o Drop(line, char_idx(line, byte_end))]

\* clipboard::delete_range
delete_range(buffer, start, end) ==
    IF start.line = end.line
    THEN IF start.line < Len(buffer)
         THEN LET line == buffer[start.line + 1]
                  grapheme_count == grapheme_len(line)
                  start_col == Min(start.column, grapheme_count)
                  end_col == Min(end.column, grapheme_count)
                  drained == drain(line, grapheme_to_byte_idx(line, start_col),
                                   grapheme_to_byte_idx(line, end_col))
              IN IF drained.panic THEN Panic
                 ELSE Done(vec_set(buffer, start.line, drained.s))
         ELSE Done(buffer)
    ELSE LET before_text ==
                 IF start.line < Len(buffer)
                 THEN grapheme_slice(buffer[start.line + 1], 0,
                                     Min(start.column, grapheme_len(buffer[start.line + 1])))
                 ELSE <<>>
             after_text ==
                 IF end.line < Len(buffer)
                 THEN grapheme_slice(buffer[end.line + 1],
                                     Min(end.column, grapheme_len(buffer[end.line + 1])),
                                     grapheme_len(buffer[end.line + 1]))
                 ELSE <<>>
             n == IF end.line >= start.line THEN end.line - start.line + 1 ELSE 0
         IN insert_all(remove_n(buffer, start.line, n), start.line,
                       <<before_text \o after_text>>)

\* what a clipboard operation returns: the view and the selection afterwards, the
\* Option<EditOperation>, and whether the operation panicked
Selected(v, sel, op) == [v |-> v, selection |-> sel, op |-> op, panic |-> FALSE]
SelectedAborted(v, sel) == [v |-> v, selection |-> sel, op |-> <<>>, panic |-> TRUE]

\* clipboard::delete_selection
delete_selection(v, sel) ==
    IF sel = <<>> \/ ~is_active(sel[1]) THEN Selected(v, sel, <<>>)
    ELSE LET range == get_range(sel[1])
             deleted_text == extract_text(v.lines, range.start, range.end)
             deleted == delete_range(v.lines, range.start, range.end)
             after == View(deleted.lines, text_to_screen_pos(v, range.start), v.scroll_offset)
         IN IF deleted.panic THEN SelectedAborted(v, <<>>)
            ELSE Selected(after, <<>>,
                          <<EditOperation(ReplaceRange(range.start.line, range.start.column,
                                                       range.end.line, range.end.column,
                                                       deleted_text, <<>>),
                                          v.position, after.position,
                                          v.scroll_offset, after.scroll_offset)>>)

\* the system clipboard, as arboard presents it: which of its calls fail, and the text
\* it holds, if any
Clipboard(status, content) == [status |-> status, content |-> content]

\* arboard::Clipboard::new succeeds
Clipboard_new_ok(clip) == clip.status # "new_fails"

\* arboard::Clipboard::set_text : the clipboard afterwards
set_text(clip, text) ==
    IF clip.status = "set_text_fails" THEN clip
    ELSE [clip EXCEPT !.content = <<text>>]

\* arboard::Clipboard::get_text succeeds
get_text_ok(clip) == clip.status # "get_text_fails" /\ clip.content # <<>>

\* clipboard::copy_selection : the clipboard afterwards
copy_selection(v, sel, clip) ==
    IF sel = <<>> \/ ~is_active(sel[1]) THEN clip
    ELSE LET range == get_range(sel[1])
             selected_text == extract_text(v.lines, range.start, range.end)
         IN IF Clipboard_new_ok(clip) THEN set_text(clip, selected_text)
            ELSE clip

\* clipboard::cut_selection
cut_selection(v, sel) == delete_selection(v, sel)

\* the scroll offset that brings buffer line final_buffer_line into view
scrolled_to(offset, final_buffer_line) ==
    LET visible_rows == saturating_sub(size.height, HEADER + 1)
    IN IF final_buffer_line >= offset + visible_rows
       THEN saturating_sub(final_buffer_line, visible_rows \div 2)
       ELSE IF final_buffer_line < offset THEN final_buffer_line
       ELSE offset

\* clipboard::insert_text_at_cursor
insert_text_at_cursor(v, text) ==
    LET pos == v.position
        buffer_line_idx == line_idx(v)
        padded == pad_lines(v.lines, buffer_line_idx)
        current_line == padded[buffer_line_idx + 1]
        grapheme_pos == Min(column_idx(v), grapheme_len(current_line))
    IN IF \E i \in 1..Len(text) : text[i] = NL
       THEN LET pieces == split_nl(text)
                halves == split_at_grapheme(current_line, grapheme_pos)
                pasted == [i \in 1..(Len(pieces) - 1) |->
                              IF i = Len(pieces) - 1 THEN pieces[i + 1] \o halves.after
                              ELSE pieces[i + 1]]
                buffer == Take(padded, buffer_line_idx)
                              \o <<halves.before \o pieces[1]>> \o pasted
                              \o Drop(padded, buffer_line_idx + 1)
                final_buffer_line == buffer_line_idx + Len(pieces) - 1
                final_text_pos == TextPosition(final_buffer_line,
                                               grapheme_len(pieces[Len(pieces)]))
                offset == scrolled_to(v.scroll_offset, final_buffer_line)
                after == View(buffer,
                              text_to_screen_pos(View(buffer, pos, offset), final_text_pos),
                              offset)
            IN Returned(after,
                        <<EditOperation(ReplaceRange(buffer_line_idx, grapheme_pos,
                                                     buffer_line_idx, grapheme_pos,
                                                     <<>>, text),
                                        pos, after.position, v.scroll_offset, offset)>>)
       ELSE LET buffer == vec_set(padded, buffer_line_idx,
                                  insert_at_grapheme(current_line, grapheme_pos, text))
                after == View(buffer,
                              [x |-> Min(pos.x + grapheme_len(text), size.width - 1),
                               y |-> pos.y],
                              v.scroll_offset)
            IN Returned(after,
                        <<EditOperation(InsertText(buffer_line_idx, grapheme_pos, text),
                                        pos, after.position,
                                        v.scroll_offset, v.scroll_offset)>>)

\* a key handler's result that hands on the operation of delete_selection with its own
after_deletion_recorded(d, r) ==
    IF d.panic THEN d
    ELSE [v |-> r.v, selection |-> d.selection, op |-> d.op \o r.op, panic |-> r.panic]

\* a key handler's result on the view that delete_selection left
after_deletion(d, r) ==
    IF d.panic THEN d
    ELSE [v |-> r.v, selection |-> d.selection, op |-> r.op, panic |-> r.panic]

\* clipboard::paste_from_clipboard
paste_from_clipboard(v, sel, clip) ==
    LET d == delete_selection(v, sel)
    IN IF Clipboard_new_ok(clip) /\ get_text_ok(clip)
       THEN after_deletion(d, insert_text_at_cursor(d.v, clip.content[1]))
       ELSE [d EXCEPT !.op = <<>>]

----------------------------------------------------------------------------
(* The key handlers (tui/view/keyboard.rs) with the selection: each deletes  *)
(* an active selection before anything else                                  *)

\* keyboard::type_character, the selection deleted first and its operation dropped
selected_type_character(v, sel, character) ==
    LET d == delete_selection(v, sel)
    IN after_deletion(d, type_character(d.v, character))

\* keyboard::insert_newline, the selection deleted first and its operation dropped
selected_insert_newline(v, sel) ==
    LET d == delete_selection(v, sel)
    IN after_deletion(d, insert_newline(d.v))

\* keyboard::delete_char : with an active selection, delete_selection and no more
selected_delete_char(v, sel) ==
    IF sel # <<>> /\ is_active(sel[1]) THEN delete_selection(v, sel)
    ELSE after_deletion(Selected(v, sel, <<>>), delete_char(v))

\* keyboard::backspace : with an active selection, delete_selection and no more
selected_backspace(v, sel) ==
    IF sel # <<>> /\ is_active(sel[1]) THEN delete_selection(v, sel)
    ELSE after_deletion(Selected(v, sel, <<>>), backspace(v))

----------------------------------------------------------------------------
(* Apply/reverse specification: an Edit and a buffer are drawn, Edit::apply  *)
(* runs on the buffer and then Edit::reverse runs on the result.            *)

\* the most lines of a drawn buffer
MaxLines == 2
\* the largest column, and the largest stored length, of a drawn edit
MaxColumn == 2

TestLines == {<<>>, <<"a">>, <<"a", "b">>, <<EAcute>>, <<"a", Combining>>}
TestTexts == {<<>>, <<"a">>, <<EAcute>>, <<"a", NL, "b">>}
TestBuffers == UNION {[1..n -> TestLines] : n \in 1..MaxLines}

\* the pieces of the lines of b
Pieces(b) ==
    UNION {{SubSeq(b[i], j, k) : j \in 1..(Len(b[i]) + 1), k \in 0..Len(b[i])} : i \in 1..Len(b)}

TestEdits(b) ==
    LET ls == 0..Len(b)
        cs == 0..MaxColumn
    IN  {InsertText(l, c, t) : l \in ls, c \in cs, t \in TestTexts \ {<<>>}}
        \cup {DeleteText(l, c, t) : l \in ls, c \in cs, t \in (TestTexts \cup Pieces(b)) \ {<<>>}}
        \cup {InsertLine(l, t) : l \in ls, t \in TestTexts \cup Pieces(b)}
        \cup {DeleteLine(l, t, n) : l \in ls, t \in Pieces(b), n \in cs}
        \cup {JoinLines(l, n) : l \in ls, n \in cs}
        \cup UNION {{ReplaceRange(sl, sc, el, ec, old, new) :
                        old \in {<<>>, extract_text(b, TextPosition(sl, sc), TextPosition(el, ec))},
                        new \in TestTexts} :
                    sl \in ls, sc \in cs, el \in ls, ec \in cs}

InitEdit ==
    /\ lines \in TestBuffers
    /\ edit \in TestEdits(lines)
    /\ lines0 = lines
    /\ stage = "start"
    /\ panicked = FALSE
    /\ position = DefaultPosition
    /\ scroll_offset = 0
    /\ undo_stack = <<>>
    /\ redo_stack = <<>>
    /\ elapsed = 0
    /\ step = NoStep
    /\ edits = 0
    /\ log = <<>>
    /\ snaps = [undo |-> <<>>, redo |-> <<>>]
    /\ selection = <<>>
    /\ clipboard = Clipboard("ok", <<>>)
    /\ prompt = <<>>
    /\ tabs = <<>>
    /\ active_tab_index = 0
    /\ quit_program = FALSE
    /\ search_state = <<>>

\* what a step of this specification leaves alone
EditFrame ==
    UNCHANGED <<position, scroll_offset, undo_stack, redo_stack, elapsed, edit, lines0,
                step, edits, log, snaps, selection, clipboard,
                prompt, tabs, active_tab_index, quit_program, search_state>>

\* operation.edit.apply(&mut buffer.lines)
ApplyEdit ==
    /\ stage = "start"
    /\ LET r == apply(edit, lines)
       IN /\ panicked' = r.panic
          /\ lines' = IF r.panic THEN lines ELSE r.lines
    /\ stage' = "applied"
    /\ EditFrame

\* operation.edit.reverse(&mut buffer.lines)
ReverseEdit ==
    /\ stage = "applied"
    /\ ~panicked
    /\ LET r == reverse(edit, lines)
       IN /\ panicked' = r.panic
          /\ lines' = IF r.panic THEN lines ELSE r.lines
    /\ stage' = "reversed"
    /\ EditFrame

NextEdit == ApplyEdit \/ ReverseEdit

SpecEdit == InitEdit /\ [][NextEdit]_vars

\* e describes a mutation of buffer b: its indices lie inside b and the text,
\* content and lengths it stores are those found in b at these indices
ValidOn(e, b) ==
    CASE e.kind = "InsertText" ->
            e.line < Len(b) /\ e.column <= Len(b[e.line + 1])
      [] e.kind = "DeleteText" ->
            /\ e.line < Len(b)
            /\ e.column + Len(e.text) <= Len(b[e.line + 1])
            /\ e.text = SubSeq(b[e.line + 1], e.column + 1, e.column + Len(e.text))
      [] e.kind = "InsertLine" ->
            /\ e.line < Len(b)
            /\ Len(e.remaining_text) <= Len(b[e.line + 1])
            /\ e.remaining_text =
                  Drop(b[e.line + 1], Len(b[e.line + 1]) - Len(e.remaining_text))
      [] e.kind = "DeleteLine" ->
            /\ e.line > 0 /\ e.line < Len(b)
            /\ e.content = b[e.line + 1]
            /\ e.prev_line_end_len = grapheme_len(b[e.line])
      [] e.kind = "JoinLines" ->
            /\ e.line + 1 < Len(b)
            /\ e.first_line_end = grapheme_len(b[e.line + 1])
      [] e.kind = "ReplaceRange" ->
            /\ e.start_line <= e.end_line /\ e.end_line < Len(b)
            /\ e.start_line = e.end_line => e.start_column <= e.end_column
            /\ e.start_column <= grapheme_len(b[e.start_line + 1])
            /\ e.end_column <= grapheme_len(b[e.end_line + 1])
            /\ e.old_text = extract_text(b, TextPosition(e.start_line, e.start_column),
                                         TextPosition(e.end_line, e.end_column))

\* C1: for every Edit e and every buffer b on which e is valid, Edit::reverse after
\* Edit::apply(b, e) yields a line sequence equal to b (no panic on the way).
C1_Invertibility ==
    (stage # "start" /\ ValidOn(edit, lines0)) =>
        /\ ~panicked
        /\ stage = "reversed" => lines = lines0

----------------------------------------------------------------------------
(* History specification: EditHistory alone, driven through its public      *)
(* functions push, undo and redo with operations drawn from HistOps, while   *)
(* time passes between the calls.                                            *)

\* the most calls of push in a run
MaxPushes == 3
\* the time that passes in one step of the clock, in ms
TickMs == 250
\* the number of calls the log records
LogLen == max_history + 1

HistEdits ==
    {InsertText(0, 0, <<"a">>), InsertText(0, 1, <<"b">>), InsertText(0, 2, <<"c">>),
     InsertText(0, 5, <<"x">>), InsertText(0, 0, <<EAcute>>), InsertText(1, 1, <<"b">>),
     DeleteText(0, 1, <<"b">>), DeleteText(0, 0, <<"a">>),
     InsertLine(0, <<>>)}

\* the operation pushed for edit e: the cursor where a keystroke making e leaves it, the
\* scroll snapshots chosen so that those of different operations differ
HistOp(e) ==
    LET column == IF e.kind = "InsertLine" THEN 0 ELSE e.column
        at(c, l) == [x |-> MARGIN + c, y |-> HEADER + l]
    IN CASE e.kind = "InsertText" ->
                EditOperation(e, at(column, e.line), at(column + 1, e.line), column, column + 1)
         [] e.kind = "DeleteText" ->
                EditOperation(e, at(column + 1, e.line), at(column, e.line), column + 1, column)
         [] OTHER ->
                EditOperation(e, at(column, e.line), at(0, e.line + 1), 0, 1)

HistOps == {HistOp(e) : e \in HistEdits}

\* the log after one more call: the first LogLen calls, then only that there were more
Logged(l, call) ==
    IF Len(l) < LogLen /\ (l = <<>> \/ l[1].kind # "more")
    THEN Append(l, call)
    ELSE <<[kind |-> "more"]>>

History == EditHistory(undo_stack, redo_stack)

InitHistory ==
    /\ undo_stack = <<>>
    /\ redo_stack = <<>>
    /\ elapsed \in {0, TickMs}
    /\ step = NoStep
    /\ edits = 0
    /\ log = <<>>
    /\ lines = <<<<>>>>
    /\ lines0 = <<<<>>>>
    /\ position = DefaultPosition
    /\ scroll_offset = 0
    /\ panicked = FALSE
    /\ edit = NoEdit
    /\ stage = "start"
    /\ snaps = [undo |-> <<>>, redo |-> <<>>]
    /\ selection = <<>>
    /\ clipboard = Clipboard("ok", <<>>)
    /\ prompt = <<>>
    /\ tabs = <<>>
    /\ active_tab_index = 0
    /\ quit_program = FALSE
    /\ search_state = <<>>

\* what a step of this specification leaves alone
HistFrame ==
    UNCHANGED <<lines, lines0, position, scroll_offset, panicked, edit, stage, snaps,
                selection, clipboard,
                prompt, tabs, active_tab_index, quit_program, search_state>>

\* edit_history.push(operation)
HistPush(operation) ==
    /\ edits < MaxPushes
    /\ LET h == push(History, operation, elapsed)
       IN /\ undo_stack' = h.undo_stack
          /\ redo_stack' = h.redo_stack
    /\ elapsed' = 0
    /\ edits' = edits + 1
    /\ step' = [kind |-> "push", operation |-> operation, elapsed |-> elapsed,
                merged |-> push_merges(History, operation, elapsed), before |-> History]
    /\ log' = Logged(log, [kind |-> "push", operation |-> operation,
                           late |-> elapsed > grouping_threshold_ms,
                           merged |-> push_merges(History, operation, elapsed)])
    /\ HistFrame

\* edit_history.undo()
HistUndo ==
    /\ LET r == undo(History)
       IN /\ undo_stack' = r.h.undo_stack
          /\ redo_stack' = r.h.redo_stack
          /\ step' = [kind |-> "undo", some |-> r.some, operation |-> r.operation,
                      before |-> History]
    /\ log' = Logged(log, [kind |-> "undo"])
    /\ UNCHANGED <<elapsed, edits>>
    /\ HistFrame

\* edit_history.redo()
HistRedo ==
    /\ LET r == redo(History)
       IN /\ undo_stack' = r.h.undo_stack
          /\ redo_stack' = r.h.redo_stack
          /\ step' = [kind |-> "redo", some |-> r.some, operation |-> r.operation,
                      before |-> History]
    /\ log' = Logged(log, [kind |-> "redo"])
    /\ UNCHANGED <<elapsed, edits>>
    /\ HistFrame

\* time passes; past the grouping threshold the clock is no longer followed
Tick ==
    /\ elapsed <= grouping_threshold_ms
    /\ elapsed' = elapsed + TickMs
    /\ UNCHANGED <<undo_stack, redo_stack, step, edits, log>>
    /\ HistFrame

NextHistory ==
    \/ \E operation \in HistOps : HistPush(operation)
    \/ HistUndo
    \/ HistRedo
    \/ Tick

SpecHistory == InitHistory /\ [][NextHistory]_vars

----------------------------------------------------------------------------
(* Editor specification: TerminalEditor::main_loop on one tab.  A file is    *)
(* loaded, keys arrive, each key runs its handler to the end, and time       *)
(* passes between the keys.                                                  *)

\* the most keys that change the buffer (editing keys, Undo, Redo) in a run
MaxEdits == 3
\* the files the editor is started on
Files == {<<>>, <<"a", "b", "c">>, <<EAcute, NL, "b">>}
\* the characters typed
TypedChars == {"x", EAcute}

\* the view and the caret as one value
Editor == View(lines, position, scroll_offset)

\* the snapshots of the entries after a push: a merged entry keeps the buffer from
\* before its first operation, the undone entries are dropped with the redo stack
snaps_pushed(sn, merged, before, after) ==
    IF merged
    THEN [undo |-> Take(sn.undo, Len(sn.undo) - 1)
                       \o <<[before |-> sn.undo[Len(sn.undo)].before, after |-> after]>>,
          redo |-> <<>>]
    ELSE LET pushed == Append(sn.undo, [before |-> before, after |-> after])
         IN [undo |-> IF Len(pushed) > max_history THEN Tail(pushed) ELSE pushed,
             redo |-> <<>>]

Init ==
    /\ lines \in {from_string(content) : content \in Files} \cup {default}
    /\ lines0 = lines
    /\ position = DefaultPosition
    /\ scroll_offset = 0
    /\ undo_stack = <<>>
    /\ redo_stack = <<>>
    /\ elapsed = 0
    /\ panicked = FALSE
    /\ edit = NoEdit
    /\ stage = "editing"
    /\ step = NoStep
    /\ edits = 0
    /\ log = <<>>
    /\ snaps = [undo |-> <<>>, redo |-> <<>>]
    /\ selection = <<>>
    /\ clipboard = Clipboard("ok", <<>>)
    /\ prompt = <<>>
    /\ tabs = <<>>
    /\ active_tab_index = 0
    /\ quit_program = FALSE
    /\ search_state = <<>>

\* main_loop on an editing key whose handler returned r: the operation, if there is
\* one, is pushed on the history
Edited(kind, r) ==
    /\ ~panicked
    /\ edits < MaxEdits
    /\ edits' = edits + 1
    /\ panicked' = r.panic
    /\ IF r.panic
       THEN UNCHANGED <<lines, position, scroll_offset, undo_stack, redo_stack,
                        elapsed, snaps>>
       ELSE /\ lines' = r.v.lines
            /\ position' = r.v.position
            /\ scroll_offset' = r.v.scroll_offset
            /\ IF r.op # <<>>
               THEN LET h == push(History, r.op[1], elapsed)
                    IN /\ undo_stack' = h.undo_stack
                       /\ redo_stack' = h.redo_stack
                       /\ elapsed' = 0
                       /\ snaps' = snaps_pushed(snaps, push_merges(History, r.op[1], elapsed),
                                                lines, r.v.lines)
               ELSE UNCHANGED <<undo_stack, redo_stack, elapsed, snaps>>
    /\ step' = [kind |-> kind, op |-> r.op,
                merged |-> r.op # <<>> /\ push_merges(History, r.op[1], elapsed)]
    /\ log' = Logged(log, [kind |-> kind, op |-> r.op,
                           late |-> elapsed > grouping_threshold_ms])
    /\ stage' = IF stage = "editing" THEN "editing" ELSE "other"
    /\ UNCHANGED <<edit, lines0, selection, clipboard,
                   prompt, tabs, active_tab_index, quit_program, search_state>>

\* Action::Print with KeyCode::Char(character)
TypeCharacter(character) == Edited("type", type_character(Editor, character))
\* Action::NextLine
InsertNewline == Edited("newline", insert_newline(Editor))
\* Action::Delete
DeleteChar == Edited("delete", delete_char(Editor))
\* Action::Backspace
Backspace == Edited("backspace", backspace(Editor))

\* Action::Undo
Undo ==
    /\ ~panicked
    /\ edits < MaxEdits
    /\ LET r == undo(History)
           buffer == reverse(r.operation.edit, lines)
       IN /\ undo_stack' = r.h.undo_stack
          /\ redo_stack' = r.h.redo_stack
          /\ IF r.some
             THEN /\ panicked' = buffer.panic
                  /\ lines' = IF buffer.panic THEN lines ELSE buffer.lines
                  /\ scroll_offset' = r.operation.scroll_before
                  /\ position' = r.operation.cursor_before
                  /\ snaps' = [undo |-> Take(snaps.undo, Len(snaps.undo) - 1),
                               redo |-> Append(snaps.redo, snaps.undo[Len(snaps.undo)])]
                  /\ stage' = IF stage \in {"editing", "undoing"} THEN "undoing" ELSE "other"
             ELSE UNCHANGED <<panicked, lines, scroll_offset, position, snaps, stage>>
    /\ step' = [kind |-> "undo", some |-> undo(History).some]
    /\ log' = Logged(log, [kind |-> "undo"])
    /\ edits' = edits + 1
    /\ UNCHANGED <<elapsed, edit, lines0, selection, clipboard,
                   prompt, tabs, active_tab_index, quit_program, search_state>>

\* Action::Redo
Redo ==
    /\ ~panicked
    /\ edits < MaxEdits
    /\ LET r == redo(History)
           buffer == apply(r.operation.edit, lines)
       IN /\ undo_stack' = r.h.undo_stack
          /\ redo_stack' = r.h.redo_stack
          /\ IF r.some
             THEN /\ panicked' = buffer.panic
                  /\ lines' = IF buffer.panic THEN lines ELSE buffer.lines
                  /\ scroll_offset' = r.operation.scroll_after
                  /\ position' = r.operation.cursor_after
                  /\ snaps' = [undo |-> Append(snaps.undo, snaps.redo[Len(snaps.redo)]),
                               redo |-> Take(snaps.redo, Len(snaps.redo) - 1)]
                  /\ stage' = IF stage = "redoing" \/ (stage = "undoing" /\ undo_stack = <<>>)
                              THEN "redoing" ELSE "other"
             ELSE UNCHANGED <<panicked, lines, scroll_offset, position, snaps, stage>>
    /\ step' = [kind |-> "redo", some |-> redo(History).some]
    /\ log' = Logged(log, [kind |-> "redo"])
    /\ edits' = edits + 1
    /\ UNCHANGED <<elapsed, edit, lines0, selection, clipboard,
                   prompt, tabs, active_tab_index, quit_program, search_state>>

\* main_loop on a key that moves the caret to where view w has it
Moved(w) ==
    /\ ~panicked
    /\ position' = w.position
    /\ scroll_offset' = w.scroll_offset
    /\ UNCHANGED <<lines, undo_stack, redo_stack, elapsed, panicked, edit, stage,
                   lines0, step, edits, log, snaps, selection, clipboard,
                   prompt, tabs, active_tab_index, quit_program, search_state>>

\* Action::MaxRight
MoveMaxRight == Moved(move_max_right(Editor))

\* the user pauses for longer than the grouping window
Pause ==
    /\ ~panicked
    /\ elapsed <= grouping_threshold_ms
    /\ elapsed' = grouping_threshold_ms + 1
    /\ UNCHANGED <<lines, position, scroll_offset, undo_stack, redo_stack, panicked,
                   edit, stage, lines0, step, edits, log, snaps, selection, clipboard,
                   prompt, tabs, active_tab_index, quit_program, search_state>>

Next ==
    \/ \E character \in TypedChars : TypeCharacter(character)
    \/ InsertNewline
    \/ DeleteChar
    \/ Backspace
    \/ Undo
    \/ Redo
    \/ MoveMaxRight
    \/ Pause

Spec == Init /\ [][Next]_vars

----------------------------------------------------------------------------
(* Clipboard specification: the editor's main loop (tui/mod.rs) on the keys  *)
(* that select, copy, cut and paste, and on the editing keys pressed over a  *)
(* selection.  All keys arrive within the grouping window.                   *)

\* the files opened
ClipFiles == {<<"a", "b", "c">>, <<"a", EAcute, NL, "c", "d">>}

\* the text the system clipboard holds at start
ClipStart == <<<<"x">>>>

\* how the system clipboard answers during one key: every call succeeds, or
\* Clipboard::new, set_text or get_text fails
ClipStatuses == {"ok", "new_fails", "set_text_fails", "get_text_fails"}

\* the characters typed
ClipChars == {"x"}

\* the keys of one run that may change the buffer
MaxClips == 1

InitClipboard ==
    /\ lines \in {from_string(content) : content \in ClipFiles}
    /\ lines0 = lines
    /\ position = DefaultPosition
    /\ scroll_offset = 0
    /\ selection = <<>>
    /\ clipboard = Clipboard("ok", ClipStart)
    /\ prompt = <<>>
    /\ tabs = <<>>
    /\ active_tab_index = 0
    /\ quit_program = FALSE
    /\ search_state = <<>>
    /\ undo_stack = <<>>
    /\ redo_stack = <<>>
    /\ elapsed = 0
    /\ panicked = FALSE
    /\ edit = NoEdit
    /\ stage = "editing"
    /\ step = NoStep
    /\ edits = 0
    /\ log = <<>>
    /\ snaps = [undo |-> <<>>, redo |-> <<>>]

\* main_loop on a key whose handler returned r and left the system clipboard as clip:
\* the operation, if there is one, is pushed on the history
Clipped(kind, r, clip) ==
    /\ ~panicked
    /\ edits < MaxClips
    /\ edits' = edits + 1
    /\ panicked' = r.panic
    /\ clipboard' = [clip EXCEPT !.status = clipboard.status]
    /\ IF r.panic
       THEN UNCHANGED <<lines, position, scroll_offset, selection, undo_stack, redo_stack,
                        snaps>>
       ELSE /\ lines' = r.v.lines
            /\ position' = r.v.position
            /\ scroll_offset' = r.v.scroll_offset
            /\ selection' = r.selection
            /\ IF r.op # <<>>
               THEN LET h == push(History, r.op[1], elapsed)
                    IN /\ undo_stack' = h.undo_stack
                       /\ redo_stack' = h.redo_stack
                       /\ snaps' = snaps_pushed(snaps, push_merges(History, r.op[1], elapsed),
                                                lines, r.v.lines)
               ELSE UNCHANGED <<undo_stack, redo_stack, snaps>>
    /\ step' = [kind |-> kind, op |-> r.op, panic |-> r.panic,
                before |-> Editor, selection |-> selection, clipboard |-> clip,
                after |-> r.v]
    /\ log' = Logged(log, [kind |-> kind, op |-> r.op])
    /\ stage' = IF stage = "editing" THEN "editing" ELSE "other"
    /\ UNCHANGED <<elapsed, edit, lines0,
                   prompt, tabs, active_tab_index, quit_program, search_state>>

\* the system clipboard during a key in which its calls answer as status says
During(status) == [clipboard EXCEPT !.status = status]

\* Action::Copy
Copy(status) ==
    /\ ~panicked
    /\ edits < MaxClips
    /\ clipboard' = [copy_selection(Editor, selection, During(status))
                         EXCEPT !.status = clipboard.status]
    /\ step' = [kind |-> "copy", op |-> <<>>, panic |-> FALSE,
                before |-> Editor, selection |-> selection,
                clipboard |-> During(status), after |-> Editor]
    /\ UNCHANGED <<lines, position, scroll_offset, selection, undo_stack, redo_stack,
                   elapsed, panicked, edit, stage, lines0, edits, log, snaps,
                   prompt, tabs, active_tab_index, quit_program, search_state>>
\* Action::Cut
Cut(status) ==
    Clipped("cut", cut_selection(Editor, selection),
            copy_selection(Editor, selection, During(status)))
\* Action::Paste
Paste(status) ==
    Clipped("paste", paste_from_clipboard(Editor, selection, During(status)),
            During(status))
\* Action::Print with KeyCode::Char(character), a selection possibly active
TypeOver(character) ==
    Clipped("type", selected_type_character(Editor, selection, character), clipboard)
\* Action::NextLine, a selection possibly active
NewlineOver == Clipped("newline", selected_insert_newline(Editor, selection), clipboard)
\* Action::Delete, a selection possibly active
DeleteOver == Clipped("delete", selected_delete_char(Editor, selection), clipboard)
\* Action::Backspace, a selection possibly active
BackspaceOver == Clipped("backspace", selected_backspace(Editor, selection), clipboard)

\* main_loop on a key that moves the caret and sets the selection as w has them
Selecting(w) ==
    /\ ~panicked
    /\ edits < MaxClips
    /\ position' = w.v.position
    /\ scroll_offset' = w.v.scroll_offset
    /\ selection' = w.selection
    /\ UNCHANGED <<lines, undo_stack, redo_stack, elapsed, panicked, edit, stage,
                   lines0, step, edits, log, snaps, clipboard,
                   prompt, tabs, active_tab_index, quit_program, search_state>>

\* Action::Right
MoveRight == Selecting([v |-> move_right(Editor), selection |-> <<>>])
\* Action::SelectRight
SelectRight == Selecting(move_with_selection(Editor, selection, move_right(Editor)))
\* Action::SelectAll
SelectAll == Selecting(select_all(Editor))

NextClipboard ==
    \/ \E status \in ClipStatuses : Copy(status)
    \/ \E status \in ClipStatuses : Cut(status)
    \/ \E status \in ClipStatuses : Paste(status)
    \/ \E character \in ClipChars : TypeOver(character)
    \/ NewlineOver
    \/ DeleteOver
    \/ BackspaceOver
    \/ MoveRight
    \/ SelectRight
    \/ SelectAll
    \/ Undo

SpecClipboard == InitClipboard /\ [][NextClipboard]_vars

\* the keys that select and the keys that type, break a line and delete over a selection
NextTypeOver ==
    \/ \E character \in ClipChars : TypeOver(character)
    \/ NewlineOver
    \/ DeleteOver
    \/ BackspaceOver
    \/ MoveRight
    \/ SelectRight
    \/ SelectAll

SpecTypeOver == InitClipboard /\ [][NextTypeOver]_vars

----------------------------------------------------------------------------
(* Grapheme specification: a string, two indices and a text are drawn, and   *)
(* one of the grapheme utilities (tui/view/graphemes.rs) is called on them.  *)

\* the longest string drawn and the largest index drawn
MaxLen == 3
MaxIdx == 4

\* the chars the strings are made of
GraphemeChars == {"a", EAcute, Combining}
\* the strings drawn
GraphemeStrings == UNION {[1..n -> GraphemeChars] : n \in 0..MaxLen}
\* the texts inserted
GraphemeTexts == {<<"x">>, <<"x", Combining>>}

\* the arguments of a call: the string s, the indices i and j, the text
GraphemeCall(s, i, j, text) == [kind |-> "graphemes", s |-> s, i |-> i, j |-> j, text |-> text]

InitGraphemes ==
    /\ edit \in {GraphemeCall(s, i, j, text) :
                    s \in GraphemeStrings, i \in 0..MaxIdx, j \in 0..MaxIdx,
                    text \in GraphemeTexts}
    /\ stage = "start"
    /\ step = NoStep
    /\ lines = <<<<>>>>
    /\ lines0 = <<<<>>>>
    /\ position = DefaultPosition
    /\ scroll_offset = 0
    /\ undo_stack = <<>>
    /\ redo_stack = <<>>
    /\ elapsed = 0
    /\ panicked = FALSE
    /\ edits = 0
    /\ log = <<>>
    /\ snaps = [undo |-> <<>>, redo |-> <<>>]
    /\ selection = <<>>
    /\ clipboard = Clipboard("ok", <<>>)
    /\ prompt = <<>>
    /\ tabs = <<>>
    /\ active_tab_index = 0
    /\ quit_program = FALSE
    /\ search_state = <<>>

\* a call that returned result
Called(result) ==
    /\ stage = "start"
    /\ stage' = "applied"
    /\ step' = result
    /\ UNCHANGED <<lines, lines0, position, scroll_offset, undo_stack, redo_stack, elapsed,
                   panicked, edit, edits, log, snaps, selection, clipboard,
                   prompt, tabs, active_tab_index, quit_program, search_state>>

\* insert_at_grapheme(&mut s, i, text)
InsertAtGrapheme ==
    edit.j = 0 /\ Called([kind |-> "insert_at_grapheme",
                          s |-> insert_at_grapheme(edit.s, edit.i, edit.text)])
\* remove_grapheme_at(&mut s, i)
RemoveGraphemeAt ==
    edit.j = 0 /\ Called([kind |-> "remove_grapheme_at"] @@ remove_grapheme_at(edit.s, edit.i))
\* grapheme_slice(s, i, j)
GraphemeSlice ==
    Called([kind |-> "grapheme_slice", s |-> grapheme_slice(edit.s, edit.i, edit.j)])
\* split_at_grapheme(s, i)
SplitAtGrapheme ==
    edit.j = 0 /\ Called([kind |-> "split_at_grapheme"] @@ split_at_grapheme(edit.s, edit.i))

NextGraphemes == InsertAtGrapheme \/ RemoveGraphemeAt \/ GraphemeSlice \/ SplitAtGrapheme

SpecGraphemes == InitGraphemes /\ [][NextGraphemes]_vars

----------------------------------------------------------------------------
(* Selection specification: a Selection is drawn and Selection::get_range    *)
(* (core/selection.rs) is called on it.                                      *)

\* the largest line and the largest column of the positions drawn
MaxSelLine == 2
MaxSelColumn == 5

\* the positions drawn
SelPositions == {TextPosition(l, c) : l \in 0..MaxSelLine, c \in 0..MaxSelColumn}

InitSelection ==
    /\ selection \in {<<Selection(anchor, cursor)>> :
                         anchor \in SelPositions, cursor \in SelPositions}
    /\ stage = "start"
    /\ step = NoStep
    /\ edit = NoEdit
    /\ lines = <<<<>>>>
    /\ lines0 = <<<<>>>>
    /\ position = DefaultPosition
    /\ scroll_offset = 0
    /\ undo_stack = <<>>
    /\ redo_stack = <<>>
    /\ elapsed = 0
    /\ panicked = FALSE
    /\ edits = 0
    /\ log = <<>>
    /\ snaps = [undo |-> <<>>, redo |-> <<>>]
    /\ clipboard = Clipboard("ok", <<>>)
    /\ prompt = <<>>
    /\ tabs = <<>>
    /\ active_tab_index = 0
    /\ quit_program = FALSE
    /\ search_state = <<>>

\* selection.get_range()
GetRange ==
    /\ stage = "start"
    /\ stage' = "applied"
    /\ step' = [kind |-> "get_range"] @@ get_range(selection[1])
    /\ UNCHANGED <<lines, lines0, position, scroll_offset, undo_stack, redo_stack, elapsed,
                   panicked, edit, edits, log, snaps, selection, clipboard,
                   prompt, tabs, active_tab_index, quit_program, search_state>>

NextSelection == GetRange

SpecSelection == InitSelection /\ [][NextSelection]_vars

----------------------------------------------------------------------------
(* Tabs, prompts and search (core/tabs.rs, tui/mod.rs, tui/view/mod.rs,      *)
(* tui/view/search.rs)                                                       *)

\* Tab::new; the filepath field is the one save_file reads and writes
Tab_new(buffer, filename) ==
    [buffer |-> buffer, filename |-> filename, filepath |-> filename,
     scroll_offset |-> 0, cursor_pos |-> DefaultPosition,
     has_unsaved_changes |-> FALSE, edit_history |-> EditHistory(<<>>, <<>>)]

\* TabManager::current_tab of editor e
current_tab(e) == e.tabs[e.active_tab_index + 1]

\* Prompt {kind, message, input}; the message is a function of the kind
Prompt(kind, input) == [kind |-> kind, input |-> input]
\* View::show_prompt
show_prompt(kind) == <<Prompt(kind, <<>>)>>
\* View::append_prompt_char
append_prompt_char(p, c) ==
    IF p # <<>> THEN <<Prompt(p[1].kind, Append(p[1].input, c))>> ELSE p
\* View::backspace_prompt
backspace_prompt(p) ==
    IF p # <<>>
    THEN <<Prompt(p[1].kind, Take(p[1].input, saturating_sub(Len(p[1].input), 1)))>>
    ELSE p
\* View::clear_prompt
clear_prompt(p) == <<>>

\* SearchMatch {line, column, length}
SearchMatch(line, column, length) == [line |-> line, column |-> column, length |-> length]
\* SearchState::new
SearchState_new(matches) == [matches |-> matches, current_match_idx |-> 0]

\* find_all_occurrences on one line, from byte start on; the lines and the query are
\* lower-case ASCII, which to_lowercase leaves as they are
RECURSIVE occurrences(_, _, _, _)
occurrences(line, line_no, query, start) ==
    IF start + Len(query) > Len(line) THEN <<>>
    ELSE (IF SubSeq(line, start + 1, start + Len(query)) = query
          THEN <<SearchMatch(line_no, start, Len(query))>> ELSE <<>>)
         \o occurrences(line, line_no, query, start + 1)

\* find_all_occurrences
RECURSIVE find_from(_, _, _)
find_from(buffer, query, line_no) ==
    IF line_no >= Len(buffer) THEN <<>>
    ELSE occurrences(buffer[line_no + 1], line_no, query, 0)
         \o find_from(buffer, query, line_no + 1)
find_all_occurrences(buffer, query) == find_from(buffer, query, 0)

\* usize::MAX, scaled down: it only has to exceed every distance between two matches
usize_MAX == 1000000

\* the distance find_closest_match gives match m from (line, col)
match_distance(m, line, col) ==
    IF m.line = line
    THEN (IF m.column >= col THEN m.column - col ELSE usize_MAX \div 2 + (col - m.column))
    ELSE IF m.line > line THEN (m.line - line) * 1000 + m.column
    ELSE usize_MAX - (line - m.line) * 1000

\* find_closest_match: the first match of the least distance, 0 when none is nearer
\* than usize::MAX
find_closest_match(matches, line, col) ==
    LET nearer(idx) == /\ match_distance(matches[idx + 1], line, col) < usize_MAX
                       /\ \A other \in 0..(Len(matches) - 1) :
                            \/ match_distance(matches[idx + 1], line, col)
                                   < match_distance(matches[other + 1], line, col)
                            \/ (idx <= other /\ match_distance(matches[idx + 1], line, col)
                                   = match_distance(matches[other + 1], line, col))
    IN IF \E idx \in 0..(Len(matches) - 1) : nearer(idx)
       THEN CHOOSE idx \in 0..(Len(matches) - 1) : nearer(idx)
       ELSE 0

\* move_to_current_match
move_to_current_match(e) ==
    IF e.search_state # <<>>
       /\ e.search_state[1].current_match_idx < Len(e.search_state[1].matches)
    THEN LET m == e.search_state[1].matches[e.search_state[1].current_match_idx + 1]
             visible_rows == saturating_sub(size.height, HEADER + 1)
             scrolled == IF m.line < e.scroll_offset THEN m.line
                         ELSE IF m.line >= e.scroll_offset + visible_rows
                         THEN saturating_sub(m.line, visible_rows \div 2)
                         ELSE e.scroll_offset
             end_pos == TextPosition(m.line, m.column + m.length)
         IN [e EXCEPT !.scroll_offset = scrolled,
                      !.selection = <<Selection(TextPosition(m.line, m.column), end_pos)>>,
                      !.prompt = show_prompt("SearchInfo"),
                      !.position = text_to_screen_pos(View(e.lines, e.position, scrolled),
                                                      end_pos)]
    ELSE e

\* perform_search
perform_search(e, query) ==
    LET matches == find_all_occurrences(e.lines, query)
        closest_idx == find_closest_match(matches, line_idx(e), column_idx(e))
    IN IF query = <<>> THEN e
       ELSE IF matches = <<>> THEN [e EXCEPT !.prompt = <<>>]
       ELSE move_to_current_match(
                [e EXCEPT !.search_state =
                     <<[SearchState_new(matches) EXCEPT !.current_match_idx = closest_idx]>>])

\* next_search_match
next_search_match(e) ==
    IF e.search_state # <<>>
    THEN LET n == Len(e.search_state[1].matches)
         IN move_to_current_match(
                [e EXCEPT !.search_state[1].current_match_idx =
                              IF n > 0 THEN (@ + 1) % n ELSE @])
    ELSE e

\* prev_search_match
prev_search_match(e) ==
    IF e.search_state # <<>>
    THEN LET n == Len(e.search_state[1].matches)
         IN move_to_current_match(
                [e EXCEPT !.search_state[1].current_match_idx =
                              IF n > 0 THEN (IF @ = 0 THEN n - 1 ELSE @ - 1) ELSE @])
    ELSE e

\* clear_search
clear_search(e) ==
    [e EXCEPT !.search_state = <<>>, !.selection = <<>>, !.prompt = <<>>]

\* TabManager::new : max_tabs
max_tabs == 10

\* sync_tab_to_view that stores the buffer alone
sync_tab_to_view_buffer_only(e) ==
    [e EXCEPT !.tabs[e.active_tab_index + 1].buffer = e.lines]

\* sync_tab_to_view: the live buffer, scroll offset and caret go into the current tab
sync_tab_to_view(e) ==
    [e EXCEPT !.tabs[e.active_tab_index + 1].buffer = e.lines,
              !.tabs[e.active_tab_index + 1].scroll_offset = e.scroll_offset,
              !.tabs[e.active_tab_index + 1].cursor_pos = e.position]

\* sync_view_to_tab: the current tab's buffer and scroll offset become the live ones
sync_view_to_tab(e) ==
    [e EXCEPT !.lines = current_tab(e).buffer,
              !.scroll_offset = current_tab(e).scroll_offset]

\* TabManager::switch_to_tab
switch_to_tab(e, tab_number) ==
    IF tab_number < 1 \/ tab_number > max_tabs THEN e
    ELSE IF tab_number - 1 >= Len(e.tabs) THEN e
    ELSE [e EXCEPT !.active_tab_index = tab_number - 1]

\* Action::SwitchTab(tab_num)
switch_tab_pressed(e, tab_num) ==
    LET shown == sync_view_to_tab(switch_to_tab(sync_tab_to_view(e), tab_num))
    IN [shown EXCEPT !.position = current_tab(shown).cursor_pos]

\* the keys that are no characters
Esc == "Esc"
Enter == "Enter"
BackspaceKey == "Backspace"

\* the quit confirmation that forgets the edit history when it is cancelled
quit_key_forgetting(e, key) ==
    IF key \in {"y", "Y"} THEN [e EXCEPT !.quit_program = TRUE, !.at = "main_loop"]
    ELSE IF key \in {"n", "N", Esc}
    THEN [e EXCEPT !.prompt = <<>>, !.at = "main_loop",
                   !.tabs[e.active_tab_index + 1].edit_history = EditHistory(<<>>, <<>>)]
    ELSE e

\* Action::Quit, the key pressed
quit_pressed(e) ==
    IF current_tab(e).has_unsaved_changes
    THEN [e EXCEPT !.prompt = show_prompt("Error"), !.at = "quit"]
    ELSE [e EXCEPT !.quit_program = TRUE]

\* Action::Quit, one key read by the loop of the confirmation
quit_key(e, key) ==
    IF key \in {"y", "Y"} THEN [e EXCEPT !.quit_program = TRUE, !.at = "main_loop"]
    ELSE IF key \in {"n", "N", Esc} THEN [e EXCEPT !.prompt = <<>>, !.at = "main_loop"]
    ELSE e

\* save_file, the key pressed; written tells whether fs::write succeeds
save_file(e, written) ==
    IF current_tab(e).filepath # <<>>
    THEN IF written
         THEN [e EXCEPT !.tabs[e.active_tab_index + 1].has_unsaved_changes = FALSE]
         ELSE [e EXCEPT !.at = "exited"]
    ELSE [e EXCEPT !.prompt = show_prompt("SaveAs"), !.at = "save_as"]

\* save_file, one key read by the loop of the Save-As prompt
save_as_key(e, key, written) ==
    IF key = Enter
    THEN LET filename == e.prompt[1].input
             named == [e EXCEPT !.prompt = <<>>,
                                !.tabs[e.active_tab_index + 1].filename = <<filename>>,
                                !.tabs[e.active_tab_index + 1].filepath = <<filename>>]
         IN IF e.prompt = <<>> THEN [e EXCEPT !.at = "main_loop"]
            ELSE IF filename = <<>> THEN [e EXCEPT !.prompt = <<>>, !.at = "main_loop"]
            ELSE IF written
            THEN [named EXCEPT !.tabs[e.active_tab_index + 1].has_unsaved_changes = FALSE,
                               !.at = "main_loop"]
            ELSE [named EXCEPT !.prompt = show_prompt("Error"), !.at = "exited"]
    ELSE IF key = Esc THEN [e EXCEPT !.prompt = <<>>, !.at = "main_loop"]
    ELSE IF key = BackspaceKey THEN [e EXCEPT !.prompt = backspace_prompt(e.prompt)]
    ELSE [e EXCEPT !.prompt = append_prompt_char(e.prompt, key)]

\* search, the key pressed
search_pressed(e) == [e EXCEPT !.prompt = show_prompt("Search"), !.at = "search"]

\* search, one key read by its loop; search_query is the prompt's input, both take
\* every character and lose one on every Backspace
search_key(e, key) ==
    IF key = Enter
    THEN [perform_search([e EXCEPT !.prompt = <<>>], e.prompt[1].input)
              EXCEPT !.at = "main_loop"]
    ELSE IF key = Esc THEN [e EXCEPT !.prompt = <<>>, !.at = "main_loop"]
    ELSE IF key = BackspaceKey THEN [e EXCEPT !.prompt = backspace_prompt(e.prompt)]
    ELSE [e EXCEPT !.prompt = append_prompt_char(e.prompt, key)]

----------------------------------------------------------------------------
(* Prompt specification: the editor's main loop (tui/mod.rs) on the keys     *)
(* that open a modal prompt (Quit, Save, Search), the loops that read the    *)
(* prompt's keys, and the keys that type, undo and walk the search matches.  *)
(* One tab is open; all keys arrive within the grouping window.              *)

\* the files opened; none when the editor starts on a new tab
PromptFiles == {<<"a", "b", "a">>}
\* the characters typed into the buffer
PromptTyped == {"a"}
\* the keys the loop of the quit confirmation reads
QuitKeys == {"y", "n", "a", Esc}
\* the keys the loops of the Save-As and the Search prompt read
PromptKeys == {"a", Esc, Enter, BackspaceKey}
\* the keys typed and undone in the buffer, and the longest input typed into a prompt
MaxTyped == 2
MaxInput == 2

\* the editor as one value; at is the loop that reads the next key
TerminalEditor ==
    [lines |-> lines, position |-> position, scroll_offset |-> scroll_offset,
     selection |-> selection, prompt |-> prompt, search_state |-> search_state,
     tabs |-> tabs, active_tab_index |-> active_tab_index,
     quit_program |-> quit_program, at |-> stage]

\* TerminalEditor::new_with_file on a file, TerminalEditor::new and run without one
InitPrompt ==
    /\ \/ /\ lines = default
          /\ tabs = <<Tab_new(default, <<>>)>>
       \/ \E content \in PromptFiles :
             /\ lines = from_string(content)
             /\ tabs = <<Tab_new(from_string(content), <<content>>)>>
    /\ lines0 = lines
    /\ position = DefaultPosition
    /\ scroll_offset = 0
    /\ undo_stack = <<>>
    /\ redo_stack = <<>>
    /\ elapsed = 0
    /\ panicked = FALSE
    /\ edit = NoEdit
    /\ stage = "main_loop"
    /\ step = NoStep
    /\ edits = 0
    /\ log = <<>>
    /\ snaps = [undo |-> <<>>, redo |-> <<>>]
    /\ selection = <<>>
    /\ clipboard = Clipboard("ok", <<>>)
    /\ prompt = <<>>
    /\ active_tab_index = 0
    /\ quit_program = FALSE
    /\ search_state = <<>>

\* the editor is left as e has it
Handled(e) ==
    /\ lines' = e.lines
    /\ position' = e.position
    /\ scroll_offset' = e.scroll_offset
    /\ selection' = e.selection
    /\ prompt' = e.prompt
    /\ search_state' = e.search_state
    /\ tabs' = e.tabs
    /\ active_tab_index' = e.active_tab_index
    /\ quit_program' = e.quit_program
    /\ stage' = e.at
    /\ UNCHANGED <<undo_stack, redo_stack, elapsed, edit, lines0, log, snaps, clipboard>>

\* main_loop reads the next key
InMainLoop == ~panicked /\ ~quit_program /\ stage = "main_loop"

\* main_loop before it resolves a key that does not walk the matches: an active
\* search is cleared
searched(e) == IF e.search_state # <<>> THEN clear_search(e) ELSE e

\* main_loop on a key that opens the prompt of loop e.at, or does without a prompt
Opened(kind, e) ==
    /\ InMainLoop
    /\ Handled(e)
    /\ step' = [kind |-> IF e.at \in {"quit", "save_as", "search"} THEN "open" ELSE kind,
                loop |-> e.at, lines |-> lines,
                edit_history |-> current_tab(TerminalEditor).edit_history,
                typed |-> FALSE]
    /\ UNCHANGED <<edits, panicked>>

\* the loop of a prompt on one key: it goes on, is cancelled, or is answered
Read(loop, e, key) ==
    /\ ~panicked
    /\ ~quit_program
    /\ stage = loop
    /\ key \notin {Esc, Enter, BackspaceKey} => Len(prompt[1].input) < MaxInput
    /\ Handled(e)
    /\ step' = [kind |-> IF e.at = loop THEN "key"
                         ELSE IF key = Esc \/ (loop = "quit" /\ key = "n") THEN "cancel"
                         ELSE "answer",
                loop |-> loop, lines |-> step.lines, edit_history |-> step.edit_history,
                typed |-> step.typed \/ e.at = loop]
    /\ UNCHANGED <<edits, panicked>>

\* Action::Quit
Quit == Opened("quit", quit_pressed(searched(TerminalEditor)))
QuitKey(key) == Read("quit", quit_key(TerminalEditor, key), key)
\* Action::Save
Save(written) == Opened("save", save_file(searched(TerminalEditor), written))
SaveAsKey(key, written) == Read("save_as", save_as_key(TerminalEditor, key, written), key)
\* Action::Search
Search == Opened("search", search_pressed(searched(TerminalEditor)))
SearchKey(key) == Read("search", search_key(TerminalEditor, key), key)

\* KeyCode::Down, KeyCode::Up and KeyCode::Esc while a search is active
Walked(kind, e) ==
    /\ InMainLoop
    /\ search_state # <<>>
    /\ Handled(e)
    /\ step' = [kind |-> kind]
    /\ UNCHANGED <<edits, panicked>>
SearchDown == Walked("down", next_search_match(TerminalEditor))
SearchUp == Walked("up", prev_search_match(TerminalEditor))
SearchEsc == Walked("esc", clear_search(TerminalEditor))

\* main_loop two seconds after a prompt was shown
PromptTimeout ==
    /\ InMainLoop
    /\ prompt # <<>>
    /\ Handled([TerminalEditor EXCEPT !.prompt = clear_prompt(prompt)])
    /\ step' = [kind |-> "timeout"]
    /\ UNCHANGED <<edits, panicked>>

\* Action::Print with KeyCode::Char(character): the operation goes to the history of
\* the current tab
PromptPrint(character) ==
    /\ InMainLoop
    /\ edits < MaxTyped
    /\ LET e == searched(TerminalEditor)
           r == type_character(View(e.lines, e.position, e.scroll_offset), character)
           h == push(current_tab(e).edit_history, r.op[1], 0)
       IN /\ panicked' = r.panic
          /\ IF r.panic THEN Handled(e)
             ELSE IF r.op = <<>>
             THEN Handled([e EXCEPT !.lines = r.v.lines, !.position = r.v.position,
                                    !.scroll_offset = r.v.scroll_offset])
             ELSE Handled([e EXCEPT !.lines = r.v.lines, !.position = r.v.position,
                                    !.scroll_offset = r.v.scroll_offset,
                                    !.tabs[e.active_tab_index + 1].edit_history = h,
                                    !.tabs[e.active_tab_index + 1].has_unsaved_changes = TRUE])
    /\ step' = [kind |-> "type"]
    /\ edits' = edits + 1

\* Action::Undo on the history of the current tab
PromptUndo ==
    /\ InMainLoop
    /\ edits < MaxTyped
    /\ LET e == searched(TerminalEditor)
           r == undo(current_tab(e).edit_history)
           buffer == reverse(r.operation.edit, e.lines)
       IN IF r.some
          THEN /\ panicked' = buffer.panic
               /\ IF buffer.panic THEN Handled(e)
                  ELSE Handled([e EXCEPT !.lines = buffer.lines,
                                         !.scroll_offset = r.operation.scroll_before,
                                         !.position = r.operation.cursor_before,
                                         !.tabs[e.active_tab_index + 1].edit_history = r.h,
                                         !.tabs[e.active_tab_index + 1].has_unsaved_changes
                                             = TRUE])
          ELSE Handled(e) /\ UNCHANGED panicked
    /\ step' = [kind |-> "undo"]
    /\ edits' = edits + 1

NextPrompt ==
    \/ Quit
    \/ \E key \in QuitKeys : QuitKey(key)
    \/ \E written \in BOOLEAN : Save(written)
    \/ \E key \in PromptKeys, written \in BOOLEAN : SaveAsKey(key, written)
    \/ Search
    \/ \E key \in PromptKeys : SearchKey(key)
    \/ SearchDown
    \/ SearchUp
    \/ SearchEsc
    \/ PromptTimeout
    \/ \E character \in PromptTyped : PromptPrint(character)
    \/ PromptUndo

SpecPrompt == InitPrompt /\ [][NextPrompt]_vars

----------------------------------------------------------------------------
(* Tab specification: the editor's main loop (tui/mod.rs) on the keys that   *)
(* switch tabs, and on keys that type, break lines and move the caret in the *)
(* tab shown.  The tabs are those of a restored session.                     *)

\* the files of the session's tabs, one tab each
TabFiles == <<<<"a", NL, "c">>, <<"d">>>>
\* the largest tab number pressed
MaxTabNumber == 3
\* the editing keys pressed
MaxTabEdits == 1

\* the live buffer, scroll offset and caret
Live == [lines |-> lines, scroll_offset |-> scroll_offset, position |-> position]

\* TabManager::from_session, then run: the active tab is shown
InitTabs ==
    /\ tabs = [i \in 1..Len(TabFiles) |-> Tab_new(from_string(TabFiles[i]), <<TabFiles[i]>>)]
    /\ active_tab_index \in 0..(Len(TabFiles) - 1)
    /\ lines = tabs[active_tab_index + 1].buffer
    /\ lines0 = lines
    /\ position = DefaultPosition
    /\ scroll_offset = 0
    /\ undo_stack = <<>>
    /\ redo_stack = <<>>
    /\ elapsed = 0
    /\ panicked = FALSE
    /\ edit = NoEdit
    /\ stage = "main_loop"
    /\ step = NoStep
    /\ edits = 0
    /\ log = <<>>
    /\ snaps = [i \in 1..Len(TabFiles) |-> <<>>]
    /\ selection = <<>>
    /\ clipboard = Clipboard("ok", <<>>)
    /\ prompt = <<>>
    /\ quit_program = FALSE
    /\ search_state = <<>>

\* main_loop on a key of the tab shown that leaves the editor as e has it; snaps keeps,
\* for every tab, the live state and the number of edits of the moment it was last left
InTab(e, edited) ==
    /\ InMainLoop
    /\ Handled(e)
    /\ step' = [kind |-> "key"]
    /\ edits' = IF edited THEN edits + 1 ELSE edits
    /\ UNCHANGED panicked

\* Action::SwitchTab(tab_num)
SwitchTab(tab_num) ==
    /\ InMainLoop
    /\ LET e == switch_tab_pressed(searched(TerminalEditor), tab_num)
       IN /\ lines' = e.lines
          /\ position' = e.position
          /\ scroll_offset' = e.scroll_offset
          /\ selection' = e.selection
          /\ prompt' = e.prompt
          /\ search_state' = e.search_state
          /\ tabs' = e.tabs
          /\ active_tab_index' = e.active_tab_index
          /\ quit_program' = e.quit_program
          /\ stage' = e.at
          /\ snaps' = IF e.active_tab_index # active_tab_index
                      THEN [snaps EXCEPT ![active_tab_index + 1] =
                                <<[live |-> Live, edits |-> edits]>>]
                      ELSE snaps
          /\ step' = [kind |-> "switch", from |-> active_tab_index,
                      to |-> e.active_tab_index,
                      returned |-> /\ e.active_tab_index # active_tab_index
                                   /\ snaps[e.active_tab_index + 1] # <<>>]
    /\ UNCHANGED <<undo_stack, redo_stack, elapsed, edit, lines0, log, clipboard,
                   edits, panicked>>

\* a key handler's result r in the tab shown: the operation goes to the tab's history
tab_edited(e, r) ==
    IF r.op = <<>>
    THEN [e EXCEPT !.lines = r.v.lines, !.position = r.v.position,
                   !.scroll_offset = r.v.scroll_offset]
    ELSE [e EXCEPT !.lines = r.v.lines, !.position = r.v.position,
                   !.scroll_offset = r.v.scroll_offset,
                   !.tabs[e.active_tab_index + 1].edit_history =
                       push(current_tab(e).edit_history, r.op[1], 0),
                   !.tabs[e.active_tab_index + 1].has_unsaved_changes = TRUE]

\* Action::Print with KeyCode::Char(character)
TabPrint(character) ==
    /\ edits < MaxTabEdits
    /\ ~type_character(Editor, character).panic
    /\ InTab(tab_edited(TerminalEditor, type_character(Editor, character)), TRUE)
\* Action::NextLine
TabNewline ==
    /\ edits < MaxTabEdits
    /\ ~insert_newline(Editor).panic
    /\ InTab(tab_edited(TerminalEditor, insert_newline(Editor)), TRUE)
\* Action::Right
TabRight ==
    InTab([TerminalEditor EXCEPT !.position = move_right(Editor).position,
                                          !.scroll_offset = move_right(Editor).scroll_offset],
          FALSE)

NextTabs ==
    \/ \E tab_num \in 0..MaxTabNumber : SwitchTab(tab_num)
    \/ \E character \in PromptTyped : TabPrint(character)
    \/ TabNewline
    \/ TabRight

SpecTabs == InitTabs /\ [][NextTabs]_vars

----------------------------------------------------------------------------
(* Tab manager specification: TabManager (core/tabs.rs) is constructed       *)
(* without a saved session and new_tab, switch_to_tab, open_file_in_new_tab  *)
(* and current_tab are called in any order.  A path is a bare file name, so  *)
(* the display name Tab::from_file derives is the path itself; whether the   *)
(* file can be read is decided by the file system at each call.              *)

\* the paths opened, and what fs::read_to_string gives: nothing (Err) or the content
TabPaths == {"a", "b"}
FileReads == {<<>>, <<<<"x">>>>}
\* the tab numbers passed to switch_to_tab
TabNumbers == 0..(max_tabs + 1)

\* the TabManager as one value
TabManager == [tabs |-> tabs, active_tab_index |-> active_tab_index]

\* Vec::pop of the tab list when it is at capacity
pop_at_capacity(m) ==
    IF Len(m.tabs) >= max_tabs THEN Take(m.tabs, Len(m.tabs) - 1) ELSE m.tabs

\* TabManager::new_tab
new_tab(m) ==
    [m EXCEPT !.tabs = <<Tab_new(default, <<>>)>> \o pop_at_capacity(m),
              !.active_tab_index = 0]

\* Tab::from_file(path) when the file reads as content
from_file(path, content) == Tab_new(from_string(content), <<path>>)

\* the indices of the tabs whose filename is path, and the first of them
open_at(m, path) == {i \in 1..Len(m.tabs) : m.tabs[i].filename = <<path>>}
first_open_at(m, path) == CHOOSE i \in open_at(m, path) : \A j \in open_at(m, path) : i <= j

\* TabManager::open_file_in_new_tab(path), the file read giving read : the manager
\* afterwards and whether Ok was returned
open_file_in_new_tab(m, path, read) ==
    IF open_at(m, path) # {}
    THEN [m |-> [m EXCEPT !.active_tab_index = first_open_at(m, path) - 1], ok |-> TRUE]
    ELSE IF read = <<>>
    THEN [m |-> [m EXCEPT !.tabs = pop_at_capacity(m)], ok |-> FALSE]
    ELSE [m |-> [m EXCEPT !.tabs = <<from_file(path, read[1])>> \o pop_at_capacity(m),
                          !.active_tab_index = 0],
          ok |-> TRUE]

\* TabManager::new with no session file: the one initial tab
InitTabManager ==
    /\ tabs = <<Tab_new(default, <<>>)>>
    /\ active_tab_index = 0
    /\ lines = default
    /\ lines0 = lines
    /\ position = DefaultPosition
    /\ scroll_offset = 0
    /\ undo_stack = <<>>
    /\ redo_stack = <<>>
    /\ elapsed = 0
    /\ panicked = FALSE
    /\ edit = NoEdit
    /\ stage = "idle"
    /\ step = NoStep
    /\ edits = 0
    /\ log = <<>>
    /\ snaps = [undo |-> <<>>, redo |-> <<>>]
    /\ selection = <<>>
    /\ clipboard = Clipboard("ok", <<>>)
    /\ prompt = <<>>
    /\ quit_program = FALSE
    /\ search_state = <<>>

\* a call that leaves the manager as m has it; step keeps the manager before the call
Managed(m, call) ==
    /\ ~panicked
    /\ tabs' = m.tabs
    /\ active_tab_index' = m.active_tab_index
    /\ step' = [call EXCEPT !.before = TabManager]
    /\ UNCHANGED <<lines, lines0, position, scroll_offset, undo_stack, redo_stack, elapsed,
                   edit, stage, edits, log, snaps, selection, clipboard, prompt,
                   quit_program, search_state>>

\* tab_manager.new_tab()
NewTab ==
    /\ Managed(new_tab(TabManager), [kind |-> "new_tab", ok |-> TRUE, before |-> <<>>])
    /\ UNCHANGED panicked

\* tab_manager.switch_to_tab(tab_number)
SwitchToTab(tab_number) ==
    /\ Managed(switch_to_tab(TabManager, tab_number),
               [kind |-> "switch_to_tab", ok |-> TRUE, before |-> <<>>])
    /\ UNCHANGED panicked

\* tab_manager.open_file_in_new_tab(path)
OpenFileInNewTab(path, read) ==
    /\ Managed(open_file_in_new_tab(TabManager, path, read).m,
               [kind |-> "open_file_in_new_tab",
                ok |-> open_file_in_new_tab(TabManager, path, read).ok, before |-> <<>>])
    /\ UNCHANGED panicked

\* tab_manager.current_tab() and current_tab_mut(): the index panics out of bounds
CurrentTab ==
    /\ Managed(TabManager, [kind |-> "current_tab", ok |-> TRUE, before |-> <<>>])
    /\ panicked' = (active_tab_index >= Len(tabs))

NextTabManager ==
    \/ NewTab
    \/ \E tab_number \in TabNumbers : SwitchToTab(tab_number)
    \/ \E path \in TabPaths, read \in FileReads : OpenFileInNewTab(path, read)
    \/ CurrentTab

SpecTabManager == InitTabManager /\ [][NextTabManager]_vars

----------------------------------------------------------------------------
(* Tab selection specification: the editor's main loop (tui/mod.rs) on the   *)
(* keys that select, switch tabs, open a new tab and type, over the tabs of  *)
(* a restored session.                                                        *)

\* the most tabs there are after Action::New
MaxShownTabs == 3

\* Action::New
new_tab_pressed(e) ==
    LET shown == sync_view_to_tab(new_tab(sync_tab_to_view(e)))
    IN [shown EXCEPT !.position = DefaultPosition]

\* main_loop on a key that leaves the editor as e has it
Shown(e, call) ==
    /\ InMainLoop
    /\ Handled(e)
    /\ step' = call
    /\ UNCHANGED <<edits, panicked>>

\* Action::SelectAll
TabSelectAll ==
    LET w == select_all(Editor)
    IN Shown([searched(TerminalEditor) EXCEPT !.position = w.v.position,
                                              !.scroll_offset = w.v.scroll_offset,
                                              !.selection = w.selection],
             [kind |-> "select", changed |-> FALSE, deleted |-> FALSE])

\* Action::SwitchTab(tab_num)
ShowTab(tab_num) ==
    LET e == switch_tab_pressed(searched(TerminalEditor), tab_num)
    IN Shown(e, [kind |-> "switch", changed |-> e.active_tab_index # active_tab_index,
                 deleted |-> FALSE])

\* Action::New
New ==
    /\ Len(tabs) < MaxShownTabs
    /\ Shown(new_tab_pressed(searched(TerminalEditor)),
             [kind |-> "new", changed |-> TRUE, deleted |-> FALSE])

\* Action::Print with KeyCode::Char(character) in the tab shown
TypeInTab(character) ==
    /\ InMainLoop
    /\ edits < MaxTabEdits
    /\ LET r == selected_type_character(Editor, selection, character)
       IN /\ panicked' = r.panic
          /\ IF r.panic
             THEN Handled(TerminalEditor)
             ELSE Handled([tab_edited(searched(TerminalEditor), r)
                               EXCEPT !.selection = r.selection])
          /\ step' = [kind |-> "type", changed |-> FALSE,
                      deleted |-> selection # <<>> /\ is_active(selection[1])]
    /\ edits' = edits + 1

NextTabSelection ==
    \/ TabSelectAll
    \/ \E tab_num \in 0..MaxTabNumber : ShowTab(tab_num)
    \/ New
    \/ \E character \in PromptTyped : TypeInTab(character)

SpecTabSelection == InitTabs /\ [][NextTabSelection]_vars

----------------------------------------------------------------------------
(* Version specification: two version strings are drawn and                  *)
(* Updater::is_newer_version (core/updater.rs) is called on them.            *)

\* the decimal digits
Digits == <<"0", "1", "2", "3", "4", "5", "6", "7", "8", "9">>
digit_value(c) == (CHOOSE i \in 1..10 : Digits[i] = c) - 1
is_digit(c) == \E i \in 1..10 : Digits[i] = c

RECURSIVE decimal(_)
\* the number a string of digits writes
decimal(s) ==
    IF s = <<>> THEN 0 ELSE decimal(Take(s, Len(s) - 1)) * 10 + digit_value(s[Len(s)])

\* str::parse::<u32>().ok() on the strings drawn, which have no sign and are too short
\* to overflow: Some(n) for a non-empty string of digits
parse_u32(s) ==
    IF s # <<>> /\ \A i \in 1..Len(s) : is_digit(s[i]) THEN <<decimal(s)>> ELSE <<>>

RECURSIVE split_dot(_)
\* str::split('.') : the pieces between dots; one empty piece for ""
split_dot(s) ==
    IF \A i \in 1..Len(s) : s[i] # "." THEN <<s>>
    ELSE LET i == CHOOSE j \in 1..Len(s) : s[j] = "." /\ \A k \in 1..(j - 1) : s[k] # "."
         IN <<Take(s, i - 1)>> \o split_dot(Drop(s, i))

RECURSIVE filter_map_parse(_)
\* .filter_map(|s| s.parse().ok()).collect() : the pieces that parse, in order
filter_map_parse(pieces) ==
    IF pieces = <<>> THEN <<>>
    ELSE parse_u32(pieces[1]) \o filter_map_parse(Tail(pieces))

\* parts.get(i).unwrap_or(&0)
get_or_0(parts, i) == IF i < Len(parts) THEN parts[i + 1] ELSE 0

\* the loop of is_newer_version from component i on
RECURSIVE newer_from(_, _, _)
newer_from(current_parts, latest_parts, i) ==
    IF i >= 3 THEN FALSE
    ELSE LET c == get_or_0(current_parts, i)
             l == get_or_0(latest_parts, i)
         IN IF l > c THEN TRUE
            ELSE IF l < c THEN FALSE
            ELSE newer_from(current_parts, latest_parts, i + 1)

\* Updater::is_newer_version
is_newer_version(current, latest) ==
    newer_from(filter_map_parse(split_dot(current)), filter_map_parse(split_dot(latest)), 0)

\* the components version strings are made of: numbers, none, and one that is no number
VersionComponents == {<<>>, <<"0">>, <<"1">>, <<"2">>, <<"1", "0">>, <<"x">>}
\* the most components a version string has
MaxComponents == 3

RECURSIVE join_dot(_)
\* the components written with dots between them
join_dot(components) ==
    IF components = <<>> THEN <<>>
    ELSE IF Len(components) = 1 THEN components[1]
    ELSE components[1] \o <<".">> \o join_dot(Tail(components))

\* the version strings drawn
Versions ==
    {join_dot(components) :
        components \in UNION {[1..n -> VersionComponents] : n \in 0..MaxComponents}}

VersionCall(current, latest) == [kind |-> "versions", current |-> current, latest |-> latest]

InitVersions ==
    /\ edit \in {VersionCall(current, latest) : current \in Versions, latest \in Versions}
    /\ stage = "start"
    /\ step = NoStep
    /\ lines = <<<<>>>>
    /\ lines0 = <<<<>>>>
    /\ position = DefaultPosition
    /\ scroll_offset = 0
    /\ undo_stack = <<>>
    /\ redo_stack = <<>>
    /\ elapsed = 0
    /\ panicked = FALSE
    /\ edits = 0
    /\ log = <<>>
    /\ snaps = [undo |-> <<>>, redo |-> <<>>]
    /\ selection = <<>>
    /\ clipboard = Clipboard("ok", <<>>)
    /\ prompt = <<>>
    /\ tabs = <<>>
    /\ active_tab_index = 0
    /\ quit_program = FALSE
    /\ search_state = <<>>

\* Updater::is_newer_version(current, latest)
IsNewerVersion ==
    Called([kind |-> "is_newer_version",
            newer |-> is_newer_version(edit.current, edit.latest)])

NextVersions == IsNewerVersion

SpecVersions == InitVersions /\ [][NextVersions]_vars

----------------------------------------------------------------------------
(* Properties of EditHistory, stated for SpecHistory *)

\* the entry on top of undo stack u
Top(u) == u[Len(u)]

\* the log is exactly n calls of push
PushesOnly(n) == Len(log) = n /\ \A i \in 1..n : log[i].kind = "push"

\* C3: after every call of push, merged or not, the redo stack is empty and a redo()
\* made directly after it returns None.
C3_PushClearsRedo ==
    step.kind = "push" => (redo_stack = <<>> /\ ~redo(History).some)

\* C3 happens: a push, merged into the top entry, made when an undone entry was waiting
C3_Witness ==
    step.kind = "push" /\ step.merged /\ step.before.redo_stack # <<>>

\* C4: after max_history + 1 pushes that do not merge the undo stack holds exactly
\* max_history entries, the first one pushed gone, the others in their order with the
\* last one pushed on top; a push at capacity evicts index 0; no push leaves more than
\* max_history entries.
C4_CapacityEviction ==
    /\ step.kind = "push" => Len(undo_stack) <= max_history
    /\ (step.kind = "push" /\ ~step.merged /\ Len(step.before.undo_stack) = max_history) =>
          undo_stack = Tail(step.before.undo_stack) \o <<step.operation>>
    /\ (PushesOnly(max_history + 1) /\ \A i \in 1..Len(log) : ~log[i].merged) =>
          undo_stack = [i \in 1..max_history |-> log[i + 1].operation]

\* C4 happens: max_history + 1 pushes were made and none merged
C4_Witness ==
    /\ PushesOnly(max_history + 1)
    /\ \A i \in 1..Len(log) : ~log[i].merged
    /\ step.kind = "push"

TypeA == HistOp(InsertText(0, 0, <<"a">>))
TypeB == HistOp(InsertText(0, 1, <<"b">>))
TypeC == HistOp(InsertText(0, 2, <<"c">>))

\* the calls so far are the pushes of 'a', 'b', 'c' at columns 0, 1, 2 of line 0
TypedABC ==
    /\ PushesOnly(3)
    /\ log[1].operation = TypeA /\ log[2].operation = TypeB /\ log[3].operation = TypeC

\* C5: 'a', 'b', 'c' pushed at columns 0, 1, 2 of line 0, each within 500 ms of the push
\* before, leave one undo entry, InsertText "abc" at column 0; with more than 500 ms
\* between 'b' and 'c' they leave two, "ab" at column 0 and then "c".
C5_GroupingThreshold ==
    /\ (TypedABC /\ ~log[2].late /\ ~log[3].late) =>
          (Len(undo_stack) = 1
           /\ undo_stack[1].edit = InsertText(0, 0, <<"a", "b", "c">>))
    /\ (TypedABC /\ ~log[2].late /\ log[3].late) =>
          (Len(undo_stack) = 2
           /\ undo_stack[1].edit = InsertText(0, 0, <<"a", "b">>)
           /\ undo_stack[2].edit = InsertText(0, 2, <<"c">>))

\* C5 happens: 'a', 'b' typed together and 'c' after a pause
C5_Witness == TypedABC /\ ~log[2].late /\ log[3].late

\* C5 happens: 'a', 'b', 'c' typed together
C5_WitnessTogether == TypedABC /\ ~log[2].late /\ ~log[3].late

\* the last call was a push of an edit of kind k that found an entry of the same kind and
\* line on top of the undo stack, within the grouping window
PushedOnto(k) ==
    /\ step.kind = "push"
    /\ step.before.undo_stack # <<>>
    /\ step.operation.edit.kind = k
    /\ Top(step.before.undo_stack).edit.kind = k
    /\ Top(step.before.undo_stack).edit.line = step.operation.edit.line
    /\ step.elapsed <= grouping_threshold_ms

\* C6: an InsertText pushed within the grouping window onto an InsertText of the same
\* line merges if and only if its column is the old column plus the old text's length in
\* graphemes; the merged entry is the old one with the new text appended and with the
\* new operation's cursor_after and scroll_after.
C6_InsertMerge ==
    PushedOnto("InsertText") =>
        LET old == Top(step.before.undo_stack)
            new == step.operation
            contiguous == new.edit.column = old.edit.column + grapheme_len(old.edit.text)
        IN /\ step.merged <=> contiguous
           /\ step.merged =>
                 /\ Len(undo_stack) = Len(step.before.undo_stack)
                 /\ Top(undo_stack) =
                       EditOperation(InsertText(old.edit.line, old.edit.column,
                                                old.edit.text \o new.edit.text),
                                     old.cursor_before, new.cursor_after,
                                     old.scroll_before, new.scroll_after)

\* C7: a DeleteText pushed within the grouping window onto a DeleteText of the same line
\* merges if and only if its column is the old column minus its own text's length, so
\* never when its column is not below the old one; the merged entry is DeleteText at
\* the new column with the new text before the old.
C7_DeleteMerge ==
    PushedOnto("DeleteText") =>
        LET old == Top(step.before.undo_stack)
            new == step.operation
            contiguous == new.edit.column = old.edit.column - grapheme_len(new.edit.text)
        IN /\ step.merged <=> contiguous
           /\ new.edit.column >= old.edit.column => ~step.merged
           /\ step.merged =>
                 Top(undo_stack).edit =
                     DeleteText(old.edit.line, new.edit.column, new.edit.text \o old.edit.text)

\* C10: an InsertText pushed within the grouping window onto an InsertText of the same
\* line, at a column other than the old column plus the old text's length, is not
\* merged: the undo stack grows by one entry and the entries below stay as they were.
C10_NonContiguousInsert ==
    (/\ PushedOnto("InsertText")
     /\ step.operation.edit.column #
           Top(step.before.undo_stack).edit.column
               + grapheme_len(Top(step.before.undo_stack).edit.text)
     /\ Len(step.before.undo_stack) < max_history) =>
        undo_stack = Append(step.before.undo_stack, step.operation)

\* the operation may be grouped with the top entry of undo stack u: u is not empty, at
\* most 500 ms have passed, and both edits are InsertText, or both DeleteText, of one line
Eligible(u, operation, elapsed_ms) ==
    /\ u # <<>>
    /\ elapsed_ms <= 500
    /\ Top(u).edit.kind = operation.edit.kind
    /\ operation.edit.kind \in {"InsertText", "DeleteText"}
    /\ Top(u).edit.line = operation.edit.line

\* undo stack u after an operation was added to it as a new entry
Added(u, operation) ==
    (IF Len(u) = max_history THEN Tail(u) ELSE u) \o <<operation>>

\* C11: push merges only when the undo stack is not empty, at most 500 ms have passed
\* since the push before and both edits are InsertText of one line or both DeleteText of
\* one line; in every other case the operation becomes a new entry on top of the stack.
C11_GroupingEligibility ==
    step.kind = "push" =>
        /\ step.merged => Eligible(step.before.undo_stack, step.operation, step.elapsed)
        /\ undo_stack # Added(step.before.undo_stack, step.operation) =>
               Eligible(step.before.undo_stack, step.operation, step.elapsed)
        /\ ~Eligible(step.before.undo_stack, step.operation, step.elapsed) =>
               Top(undo_stack) = step.operation

\* C11 happens: a contiguous InsertText pushed onto an InsertText of its line more than
\* 500 ms later, and so not merged
C11_Witness ==
    /\ step.kind = "push"
    /\ step.before.undo_stack # <<>>
    /\ step.elapsed > 500
    /\ step.operation.edit.kind = "InsertText"
    /\ Top(step.before.undo_stack).edit.kind = "InsertText"
    /\ Top(step.before.undo_stack).edit.line = step.operation.edit.line
    /\ step.operation.edit.column =
          Top(step.before.undo_stack).edit.column
              + Len(Top(step.before.undo_stack).edit.text)
    /\ Len(undo_stack) = Len(step.before.undo_stack) + 1

\* the entries of a history in the order of the edits: the undo stack from the bottom,
\* then the redo stack from the top
Timeline(h) ==
    h.undo_stack \o [i \in 1..Len(h.redo_stack) |-> h.redo_stack[Len(h.redo_stack) + 1 - i]]

\* C12: undo() returns the most recent entry of the undo stack and moves it onto the redo
\* stack; redo() returns the entry undone last and moves it back onto the undo stack;
\* neither changes the order of the entries read along the undo stack from the bottom
\* and then down the redo stack, and a push that does not merge puts its operation at
\* the end of that order.
C12_UndoRedoOrder ==
    /\ (step.kind = "undo" /\ step.some) =>
          /\ step.operation = Top(step.before.undo_stack)
          /\ undo_stack = Take(step.before.undo_stack, Len(step.before.undo_stack) - 1)
          /\ redo_stack = Append(step.before.redo_stack, step.operation)
          /\ Timeline(History) = Timeline(step.before)
    /\ (step.kind = "redo" /\ step.some) =>
          /\ step.operation = Top(step.before.redo_stack)
          /\ redo_stack = Take(step.before.redo_stack, Len(step.before.redo_stack) - 1)
          /\ undo_stack = Append(step.before.undo_stack, step.operation)
          /\ Timeline(History) = Timeline(step.before)
    /\ (step.kind = "push" /\ ~step.merged) =>
          Timeline(History) = Added(step.before.undo_stack, step.operation)

\* C12 happens: two entries were undone and the older of them has just been redone
C12_Witness ==
    /\ step.kind = "redo"
    /\ step.some
    /\ Len(step.before.redo_stack) = 2
    /\ redo_stack # <<>>
    /\ Top(redo_stack) # Top(undo_stack)

\* C36: whenever push merges an operation into the entry on top of the undo stack, that
\* entry is the one the push before it made or extended; after an undo has taken an
\* entry off and uncovered an older one, the next push does not merge into the older one
C36_NoMergeIntoUncoveredEntry ==
    [][(/\ step.kind = "undo"
        /\ step.some
        /\ edits' # edits
        /\ step'.kind = "push") => ~step'.merged]_vars

\* C37: after any sequence of push, undo and redo the two stacks together hold at most
\* max_history operations, although redo pushes onto the undo stack without a
\* capacity check
C37_RetainedOperationsBounded ==
    Len(undo_stack) + Len(redo_stack) <= max_history

\* a redo has filled the undo stack to capacity after a push had evicted the oldest entry
C37_Witness ==
    /\ step.kind = "redo"
    /\ step.some
    /\ Len(undo_stack) = max_history
    /\ edits > max_history

----------------------------------------------------------------------------
(* Properties of the editor, stated for Spec *)

\* C2: when the keys so far were editing keys, then Undo until the undo stack was empty,
\* then Redo, no Undo or Redo panicked, and after each Redo the buffer is the buffer
\* that existed right after the entry it restored was made (after the last Redo, the
\* buffer after the last edit).
C2_UndoRedoIdentity ==
    /\ stage \in {"undoing", "redoing"} => ~panicked
    /\ (stage = "redoing" /\ ~panicked) => lines = Top(snaps.undo).after

\* the last editing key was Backspace or Delete and left a DeleteText entry on top
DeletedText ==
    /\ step.kind \in {"backspace", "delete"}
    /\ step.op # <<>>
    /\ ~panicked
    /\ Top(undo_stack).edit.kind = "DeleteText"

\* C8: a DeleteText entry left on top of the undo stack by Backspace or Delete, merged
\* or not, holds the run of text that stood at its column before the first deletion
\* it stands for, and reversing it restores the buffer of that moment.
C8_DeleteTextStoresRemovedRun ==
    DeletedText =>
        LET entry == Top(undo_stack).edit
            before == Top(snaps.undo).before
        IN /\ entry.line < Len(before)
           /\ grapheme_slice(before[entry.line + 1], entry.column,
                             entry.column + grapheme_len(entry.text)) = entry.text
           /\ reverse(entry, lines) = Done(before)

\* the keys so far were three Backspaces on the line "abc", deleting at columns 2, 1, 0,
\* the second and the third within the grouping window
BackspacedABC ==
    /\ lines0[1] = <<"a", "b", "c">>
    /\ Len(log) = 3
    /\ \A i \in 1..3 :
          /\ log[i].kind = "backspace"
          /\ log[i].op # <<>>
          /\ log[i].op[1].edit = DeleteText(0, 3 - i, <<lines0[1][4 - i]>>)
    /\ ~log[2].late
    /\ ~log[3].late

\* C9: three Backspaces from the end of the line "abc", within the grouping window,
\* leave one undo entry, DeleteText "abc" at column 0.
C9_BackspaceGrouping ==
    BackspacedABC =>
        /\ Len(undo_stack) = 1
        /\ undo_stack[1].edit = DeleteText(0, 0, <<"a", "b", "c">>)

\* C9 happens: the third Backspace has just merged and the line is empty
C9_Witness ==
    BackspacedABC /\ step.kind = "backspace" /\ step.merged /\ lines[1] = <<>>

\* C13: an Undo pressed while the undo stack is empty gets None from undo(), a Redo
\* pressed while the redo stack is empty gets None from redo(), and such a step changes
\* neither stack nor the buffer, the caret or the scroll offset.
C13_EmptyStackNoOp ==
    [][/\ (edits' # edits /\ step'.kind = "undo" /\ undo_stack = <<>>) =>
             /\ ~step'.some
             /\ UNCHANGED <<undo_stack, redo_stack, lines, position, scroll_offset>>
       /\ (edits' # edits /\ step'.kind = "redo" /\ redo_stack = <<>>) =>
             /\ ~step'.some
             /\ UNCHANGED <<undo_stack, redo_stack, lines, position, scroll_offset>>]_vars

\* C13 happens: Undo found the undo stack empty while an undone entry was waiting
C13_Witness ==
    step.kind = "undo" /\ ~step.some /\ undo_stack = <<>> /\ redo_stack # <<>>

\* C14: after a Backspace at column 0 of a line below the first, which joins the line to
\* the one above and returns a DeleteLine edit, Edit::reverse of that edit restores the
\* buffer as it was before the Backspace.
C14_DeleteLineReverse ==
    (/\ step.kind = "backspace"
     /\ step.op # <<>>
     /\ step.op[1].edit.kind = "DeleteLine") =>
        reverse(step.op[1].edit, lines) = Done(Top(snaps.undo).before)


Ascii(buffer) ==
    \A i \in 1..Len(buffer) : \A j \in 1..Len(buffer[i]) : len_utf8(buffer[i][j]) = 1

\* C32: when type_character, insert_newline, delete_char or backspace has changed an
\* ASCII buffer in place and returned an edit, the buffer is what Edit::apply of that
\* edit makes of the buffer as it was before the key, so that Redo after Undo repeats
\* the keystroke; so for Enter in the middle of a line and for Backspace at column 0
C32_MutationIsApply ==
    [][(/\ edits' # edits
        /\ step'.kind \in {"type", "newline", "delete", "backspace"}
        /\ step'.op # <<>>
        /\ ~panicked'
        /\ Ascii(lines) /\ Ascii(lines'))
           => apply(step'.op[1].edit, lines) = Done(lines')]_vars

\* C34: type_character returns whatever the caret position inside the terminal: at the
\* right screen edge it inserts a newline and calls itself once, and that call does not
\* wrap again, also when the caret is on the last text row (y = height - 2), where the
\* newline scrolls the view and leaves the caret's row as it is
C34_TypeCharacterReturns == step.kind = "type" => ~panicked

----------------------------------------------------------------------------
(* Properties of the clipboard operations, stated for SpecClipboard *)

\* the last key deleted an active selection through delete_selection and returned its
\* operation: Cut, or Delete or Backspace pressed over the selection
DeletedSelection ==
    /\ step.kind \in {"cut", "delete", "backspace"}
    /\ ~step.panic
    /\ step.selection # <<>>
    /\ is_active(step.selection[1])
    /\ step.op # <<>>

\* C15: after delete_selection (or cut) of a range within one line, Edit::reverse of
\* the ReplaceRange returned, run on the buffer the deletion left, gives back the
\* buffer from before the deletion, the text after end_column included.
C15_SingleLineDeleteReverse ==
    (DeletedSelection /\ step.op[1].edit.start_line = step.op[1].edit.end_line) =>
        reverse(step.op[1].edit, step.after.lines) = Done(step.before.lines)

\* C16: Edit::reverse of a ReplaceRange with start_line # end_line undoes the multi-line
\* apply: run on the buffer a multi-line selection deletion left, it brings back the
\* deleted lines and gives the buffer from before the deletion.
C16_MultiLineDeleteReverse ==
    (DeletedSelection /\ step.op[1].edit.start_line # step.op[1].edit.end_line) =>
        reverse(step.op[1].edit, step.after.lines) = Done(step.before.lines)

\* C17: delete_selection over an active selection changes the buffer exactly as
\* Edit::apply of the ReplaceRange it returns would change the buffer from before the
\* deletion, for ranges within one line and for ranges over several lines.
C17_DeleteSelectionIsApply ==
    DeletedSelection => apply(step.op[1].edit, step.before.lines) = Done(step.after.lines)

\* the last key was Paste, pressed over an active selection, and it returned an operation
PastedOverSelection ==
    /\ step.kind = "paste"
    /\ ~step.panic
    /\ step.selection # <<>>
    /\ is_active(step.selection[1])
    /\ step.op # <<>>

\* C18: paste_from_clipboard with an active selection returns one EditOperation whose
\* old_text is the text of the selection it deleted and whose range is the selection's,
\* so that undoing that one operation gives back the buffer with the selected text.
C18_PasteRecordsSelection ==
    PastedOverSelection =>
        LET e == step.op[1].edit
            range == get_range(step.selection[1])
        IN /\ e.kind = "ReplaceRange"
           /\ e.old_text = extract_text(step.before.lines, range.start, range.end)
           /\ TextPosition(e.start_line, e.start_column) = range.start
           /\ TextPosition(e.end_line, e.end_column) = range.end
           /\ reverse(e, step.after.lines) = Done(step.before.lines)

\* the last key was a mutation (a typed character, Enter, Backspace, Delete, Cut or
\* Paste) that returned an operation
Mutated ==
    /\ step.kind \in {"type", "newline", "backspace", "delete", "cut", "paste"}
    /\ ~step.panic
    /\ step.op # <<>>

\* C19: the operation a mutation returns has cursor_before and scroll_before equal to
\* the caret and the scroll offset at the moment the key handler was called, before an
\* active selection was deleted or the line wrapped, and cursor_after and scroll_after
\* equal to the caret and the scroll offset when the handler returned.
C19_CursorAndScrollRecorded ==
    Mutated =>
        /\ step.op[1].cursor_before = step.before.position
        /\ step.op[1].scroll_before = step.before.scroll_offset
        /\ step.op[1].cursor_after = step.after.position
        /\ step.op[1].scroll_after = step.after.scroll_offset

\* the last key was Copy, Cut or Paste and the clipboard call it needs failed:
\* Clipboard::new, or set_text for Copy and Cut, or get_text for Paste
ClipboardFailed ==
    /\ step.kind \in {"copy", "cut", "paste"}
    /\ ~step.panic
    /\ \/ step.clipboard.status = "new_fails"
       \/ step.kind \in {"copy", "cut"} /\ step.clipboard.status = "set_text_fails"
       \/ step.kind = "paste" /\ step.clipboard.status = "get_text_fails"

\* C20: when the system clipboard is unavailable, Copy, Cut and Paste do nothing: the
\* buffer is as it was, the selected text still there, and no operation is returned
\* (so none is pushed on the history).
C20_ClipboardFailureNoOp ==
    ClipboardFailed =>
        /\ step.after.lines = step.before.lines
        /\ step.op = <<>>

----------------------------------------------------------------------------
(* Properties of Edit::apply and Edit::reverse, stated for SpecEdit *)

\* the line index of e lies outside buffer b
LineOutside(e, b) ==
    IF e.kind = "ReplaceRange" THEN e.start_line >= Len(b) /\ e.end_line >= Len(b)
    ELSE e.line >= Len(b)

\* C21: whenever the line index of the edit lies outside the buffer, Edit::apply and
\* Edit::reverse leave the buffer as it is and do not fail, for every Edit variant.
C21_OutOfBufferNoOp ==
    [][LineOutside(edit, lines) => (lines' = lines /\ ~panicked')]_vars

\* the edit is one that indexes into a line by column or by a stored length
IndexesColumn(e) ==
    \/ e.kind \in {"InsertText", "DeleteText", "JoinLines", "DeleteLine"}
    \/ e.kind = "ReplaceRange" /\ e.start_line = e.end_line

\* C22: Edit::apply and Edit::reverse never panic on a column beyond the end of the
\* line or on a stored text longer than what is left after the column, for InsertText,
\* DeleteText, ReplaceRange within one line, and the reverse of JoinLines and DeleteLine.
C22_NoPanicOnColumn ==
    IndexesColumn(edit) => ~panicked

\* C23: Edit::apply of InsertText{line, column, text} splices the text at the grapheme
\* index column, as insert_at_grapheme did when the text was typed: a grapheme made of
\* several code points before the column stays whole and grapheme_len grows by
\* grapheme_len(text).
C23_InsertTextAtGrapheme ==
    (/\ stage = "applied"
     /\ edit.kind = "InsertText"
     /\ edit.line < Len(lines0)
     /\ edit.column <= grapheme_len(lines0[edit.line + 1])) =>
        /\ ~panicked
        /\ lines[edit.line + 1] =
               insert_at_grapheme(lines0[edit.line + 1], edit.column, edit.text)
        /\ grapheme_len(lines[edit.line + 1]) =
               grapheme_len(lines0[edit.line + 1]) + grapheme_len(edit.text)

\* line s without the n graphemes that start at grapheme index column
without_graphemes(s, column, n) ==
    grapheme_slice(s, 0, column) \o grapheme_slice(s, column + n, grapheme_len(s))

\* the buffer Edit::apply left for the edit under test, which Edit::reverse then gets
Applied == apply(edit, lines0).lines

\* C24: Edit::apply of DeleteText{line, column, text} and Edit::reverse of
\* InsertText{line, column, text} remove exactly grapheme_len(text) graphemes starting
\* at column, whatever the byte length of text.
C24_RemovesGraphemeRun ==
    /\ (/\ stage = "applied"
        /\ edit.kind = "DeleteText"
        /\ edit.line < Len(lines0)
        /\ edit.column + grapheme_len(edit.text) <= grapheme_len(lines0[edit.line + 1])) =>
           /\ ~panicked
           /\ lines[edit.line + 1] =
                  without_graphemes(lines0[edit.line + 1], edit.column,
                                    grapheme_len(edit.text))
    /\ (/\ stage = "reversed"
        /\ edit.kind = "InsertText"
        /\ edit.line < Len(lines0)
        /\ edit.column + grapheme_len(edit.text) <= grapheme_len(Applied[edit.line + 1])) =>
           /\ ~panicked
           /\ lines[edit.line + 1] =
                  without_graphemes(Applied[edit.line + 1], edit.column,
                                    grapheme_len(edit.text))

----------------------------------------------------------------------------
(* Properties of the grapheme utilities, stated for SpecGraphemes *)

\* t is a run of consecutive chars of s
InsideOf(t, s) == \E from \in 0..Len(s) : SubSeq(s, from + 1, from + Len(t)) = t

\* C25: the grapheme utilities are total.  For every index i, also beyond
\* grapheme_len(s): insert_at_grapheme with i >= grapheme_len(s) appends the text to
\* s; remove_grapheme_at with i >= grapheme_len(s) returns None and leaves s as it is;
\* grapheme_slice returns graphemes of s only, none when start >= end or start is not
\* below grapheme_len(s); split_at_grapheme returns (before, after) that concatenate
\* to s, with grapheme_len(before) = min(i, grapheme_len(s)).
C25_GraphemeUtilitiesTotal ==
    stage = "applied" =>
        LET s == edit.s
            i == edit.i
            n == grapheme_len(edit.s)
        IN /\ (step.kind = "insert_at_grapheme" /\ i >= n) => step.s = s \o edit.text
           /\ (step.kind = "remove_grapheme_at" /\ i >= n) => (~step.some /\ step.s = s)
           /\ step.kind = "grapheme_slice" =>
                 /\ InsideOf(step.s, s)
                 /\ grapheme_len(step.s) = saturating_sub(Min(edit.j, n), Min(i, n))
                 /\ (i >= edit.j \/ i >= n) => step.s = <<>>
           /\ step.kind = "split_at_grapheme" =>
                 /\ step.before \o step.after = s
                 /\ grapheme_len(step.before) = Min(i, n)

\* C25 happens: split_at_grapheme has been called with an index beyond the graphemes
\* of a string that holds a grapheme of two code points
C25_Witness ==
    /\ stage = "applied"
    /\ step.kind = "split_at_grapheme"
    /\ edit.s = <<"a", Combining, EAcute>>
    /\ edit.i > grapheme_len(edit.s)
    /\ step.before = edit.s
    /\ step.after = <<>>

----------------------------------------------------------------------------
(* Properties of Selection, stated for SpecSelection *)

\* position p is not after position q, by line and then by column
NotAfter(p, q) == p.line < q.line \/ (p.line = q.line /\ p.column <= q.column)

\* C26: Selection::get_range returns anchor and cursor ordered by line and then by
\* column: the two components are the anchor and the cursor, the first is never after
\* the second, and the selection with anchor and cursor swapped gives the same pair.
C26_GetRangeOrdered ==
    (stage = "applied" /\ step.kind = "get_range") =>
        LET s == selection[1]
        IN /\ {step.start, step.end} = {s.anchor, s.cursor}
           /\ NotAfter(step.start, step.end)
           /\ get_range(Selection(s.cursor, s.anchor)) = [start |-> step.start, end |-> step.end]

\* C26 happens: get_range has been called with anchor (2,5) and cursor (1,0) and
\* returned ((1,0),(2,5))
C26_Witness ==
    /\ stage = "applied"
    /\ step.kind = "get_range"
    /\ selection = <<Selection(TextPosition(2, 5), TextPosition(1, 0))>>
    /\ step.start = TextPosition(1, 0)
    /\ step.end = TextPosition(2, 5)

----------------------------------------------------------------------------
(* Properties of the modal prompts, stated for SpecPrompt *)

\* C29: when a modal prompt is cancelled (Esc in the Save-As or the Search prompt, 'n'
\* or Esc at the quit confirmation), the buffer lines and both stacks of the edit
\* history are the ones of the moment the prompt was opened, whatever was typed into it
C29_CancelLeavesBufferAndHistory ==
    step.kind = "cancel" =>
        /\ lines = step.lines
        /\ current_tab(TerminalEditor).edit_history = step.edit_history

\* the Search prompt is cancelled after keys were typed into it, the history holds an
\* operation
C29_Witness ==
    /\ step.kind = "cancel"
    /\ step.loop = "search"
    /\ step.typed
    /\ step.edit_history.undo_stack # <<>>
    /\ lines # lines0

----------------------------------------------------------------------------
(* Properties of the tabs, stated for SpecTabs *)

\* the tab now shown was left before and no edit was made since
Revisited ==
    /\ step.kind = "switch"
    /\ step.returned
    /\ snaps[active_tab_index + 1][1].edits = edits

\* C30: when tab A is shown again after a switch to another tab and back, no edit made
\* in between, the live buffer, scroll offset and caret are the ones A was left with
C30_SwitchRoundTrip == Revisited => Live = snaps[active_tab_index + 1][1].live

\* a tab is shown again whose caret had moved and whose buffer had been edited before
\* it was left, after another tab with another buffer was shown
C30_Witness ==
    /\ Revisited
    /\ position # DefaultPosition
    /\ lines # lines0
    /\ lines # tabs[step.from + 1].buffer
    /\ position # tabs[step.from + 1].cursor_pos

----------------------------------------------------------------------------
(* Properties of Updater::is_newer_version, stated for SpecVersions *)

\* component i of version string s as it is written: the i-th piece between the dots,
\* 0 when the piece is missing or is no number
component(s, i) ==
    LET pieces == split_dot(s)
    IN IF i < Len(pieces) /\ parse_u32(pieces[i + 1]) # <<>>
       THEN parse_u32(pieces[i + 1])[1] ELSE 0

\* the (major, minor, patch) triple of version string s
triple(s) == <<component(s, 0), component(s, 1), component(s, 2)>>

\* triple a is lexicographically greater than triple b
triple_greater(a, b) ==
    \/ a[1] > b[1]
    \/ a[1] = b[1] /\ a[2] > b[2]
    \/ a[1] = b[1] /\ a[2] = b[2] /\ a[3] > b[3]

\* C31: is_newer_version(current, latest) is true exactly when latest's (major, minor,
\* patch) triple is lexicographically greater than current's, a missing component
\* counting as 0; no version is newer than itself, and of two versions at most one is
\* newer than the other
C31_NewerIsTripleOrder ==
    step.kind = "is_newer_version" =>
        /\ step.newer <=> triple_greater(triple(edit.latest), triple(edit.current))
        /\ ~is_newer_version(edit.current, edit.current)
        /\ ~(step.newer /\ is_newer_version(edit.latest, edit.current))

\* the last key was Paste, pressed with no active selection, and it returned an operation
PastedAtCursor ==
    /\ step.kind = "paste"
    /\ ~step.panic
    /\ (step.selection = <<>> \/ ~is_active(step.selection[1]))
    /\ step.op # <<>>

\* C33: after paste_from_clipboard with no active selection, Edit::reverse of the returned
\* edit (InsertText for text without newlines, ReplaceRange for text with newlines)
\* restores the buffer from before the paste, and Edit::apply afterwards gives the
\* pasted lines again
C33_PasteReverseApply ==
    PastedAtCursor =>
        LET e == step.op[1].edit
            undone == reverse(e, step.after.lines)
        IN /\ undone = Done(step.before.lines)
           /\ apply(e, step.before.lines) = Done(step.after.lines)

----------------------------------------------------------------------------
(* Properties of TabManager, stated for SpecTabManager *)

\* C38: after any sequence of new_tab, switch_to_tab and open_file_in_new_tab calls,
\* those that return an error included, there are between 1 and max_tabs tabs and
\* active_tab_index is below their number, so current_tab never indexes out of bounds
C38_ActiveTabInBounds ==
    /\ 1 <= Len(tabs)
    /\ Len(tabs) <= max_tabs
    /\ active_tab_index < Len(tabs)
    /\ ~panicked

\* C39: an open_file_in_new_tab that cannot load the file returns Err and leaves the
\* tab list and active_tab_index as they were before the call
C39_FailedOpenLeavesTabs ==
    (step.kind = "open_file_in_new_tab" /\ ~step.ok) => TabManager = step.before

----------------------------------------------------------------------------
(* Properties of tab changes, stated for SpecTabSelection *)

\* C40: after a key has switched to another tab or opened a new tab, no selection made
\* in the tab shown before is in effect: the selection is None or inactive, so the
\* next character typed deletes no range of the tab now shown
C40_TabChangeDropsSelection ==
    ((step.kind \in {"switch", "new"}) /\ step.changed)
        => (selection = <<>> \/ ~is_active(selection[1]))

============================================================================
